---------------------------- MODULE Spec2Model ----------------------------
(***************************************************************************)
(* A model of the import reconciliation core of agent-transfer:            *)
(*   - utils/import_analyzer.py  (comparator, diff summary, analysis)      *)
(*   - utils/conflict_resolver.py, utils/skill_conflict_resolver.py        *)
(*     (conflict resolution on single files and on directories)            *)
(* Texts are TLA+ strings; a text's characters are read with SubSeq.       *)
(***************************************************************************)
EXTENDS Integers, Sequences, FiniteSets, TLC

VARIABLES
    pc,             \* position of the operation in progress
    home_agents,    \* ~/.claude/agents: file name -> content
    cwd_agents,     \* ./.claude/agents: file name -> content
    existing,       \* comparator input: the local text
    incoming,       \* comparator input: the archive's text
    archive_agent,  \* comparator input: Agent parsed from the archive
    local_agent,    \* comparator input: Optional[Agent] parsed locally
    comparison,     \* Optional[AgentComparison] returned by compare_agents
    diff_summary,   \* Optional[str] returned by generate_diff_summary
    archive,        \* the file at archive_path
    temp_dir,       \* Optional: the entries of the temporary directory
    metadata,       \* analysis: the parsed metadata.txt
    archive_agents, \* analysis: the agents parsed from the archive
    comparisons,    \* analysis: the comparisons made so far
    outcome,        \* Optional: what the operation returned or raised
    tree0,          \* the local agent directories when the operation began
    skills_base,    \* the local skills directory, name -> (relative path -> file)
    conflict,       \* Optional: the conflicting item met by the import
    calls,          \* the resolver calls made so far, oldest first
    local_skill,    \* directory comparator input: the existing directory
    archive_skill,  \* directory comparator input: the incoming directory
    skill_diff,     \* Optional: the differences the comparator computed
    first_run,      \* Optional: the comparisons of an earlier analysis
    request,        \* Optional: the import asked for (operation, mode, type)
    queue,          \* import: the items still to be processed, in order
    stats,          \* import: the counters of the run
    cwd_skills,     \* ./.claude/skills: name -> (relative path -> file)
    cwd_claude,     \* whether ./.claude exists
    processed,      \* import: what became of each item handled so far
    unwritable,     \* the target names the process is not allowed to write
    prompt,         \* Optional: the interactive prompt the run is waiting at
    run_summary,    \* Optional: the end-of-run summary printed
    cli,            \* Optional: how the command line ended (message, exit code)
    source_file,    \* parser input: Optional, the file to parse
    parsed,         \* parser output: Optional, what the parser returned
    choices,        \* interactive resolver: the answers at its prompt so far
    merge,          \* Optional: the interactive merge under way
    merged_content, \* Optional: the text the interactive merge returned
    file_merge,     \* Optional: the file-by-file merge of a skill under way
    selection       \* Optional: the import selection loop under way

compare_vars == << existing, incoming, archive_agent, local_agent,
                   comparison, diff_summary >>
tree_vars == << home_agents, cwd_agents >>
analysis_vars == << archive, temp_dir, metadata, archive_agents, comparisons,
                    outcome, tree0, first_run >>
resolve_vars == << skills_base, conflict, calls >>
skillcmp_vars == << local_skill, archive_skill, skill_diff >>
import_vars == << request, queue, stats, cwd_skills, cwd_claude, processed,
                  unwritable, prompt, run_summary, cli >>
parse_vars == << source_file, parsed >>
interactive_vars == << choices, merge, merged_content >>
dialog_vars == << file_merge, selection >>
vars == << pc, tree_vars, compare_vars, analysis_vars, resolve_vars,
          skillcmp_vars, import_vars, parse_vars, interactive_vars,
          dialog_vars >>

(***************************************************************************)
(* Bounds of the model.                                                    *)
(***************************************************************************)
MaxTextLen == 3
MaxArchiveEntries == 2

\* The characters texts are built from: a letter, the two characters the
\* unified diff uses as line markers, and the line terminator.
Chars == {"a", "-", "+", "\n"}

(***************************************************************************)
(* Optional values (Python's None / a value).                              *)
(***************************************************************************)
None == << >>
Some(v) == << v >>
IsNone(o) == o = None
Value(o) == o[1]

\* `x or ""` on an Optional[str]
OrEmpty(o) == IF IsNone(o) THEN "" ELSE Value(o)

(***************************************************************************)
(* Strings.                                                                *)
(***************************************************************************)
RECURSIVE TextsUpTo(_)
TextsUpTo(n) ==
    IF n = 0 THEN {""}
    ELSE LET shorter == TextsUpTo(n - 1)
         IN  shorter \cup {t \o c : t \in {s \in shorter : Len(s) = n - 1}, c \in Chars}

CharAt(s, i) == SubSeq(s, i, i)

\* str.startswith
startswith(s, prefix) ==
    /\ Len(s) >= Len(prefix)
    /\ SubSeq(s, 1, Len(prefix)) = prefix

Min(S) == CHOOSE x \in S : \A y \in S : x <= y
Max(S) == CHOOSE x \in S : \A y \in S : x >= y

\* Position of the first line terminator of s, 0 when it has none.
FirstNewline(s) ==
    LET at == {i \in 1..Len(s) : CharAt(s, i) = "\n"}
    IN  IF at = {} THEN 0 ELSE Min(at)

\* str.splitlines(keepends): the lines of s, each with its terminator when
\* keepends, without it otherwise; a trailing terminator opens no empty line.
RECURSIVE splitlines(_, _)
splitlines(s, keepends) ==
    IF s = "" THEN << >>
    ELSE LET k == FirstNewline(s)
         IN  IF k = 0 THEN << s >>
             ELSE << SubSeq(s, 1, IF keepends THEN k ELSE k - 1) >>
                  \o splitlines(SubSeq(s, k + 1, Len(s)), keepends)

\* sep.join(parts)
RECURSIVE join(_, _)
join(sep, parts) ==
    IF parts = << >> THEN ""
    ELSE IF Len(parts) = 1 THEN parts[1]
    ELSE parts[1] \o sep \o join(sep, Tail(parts))

(***************************************************************************)
(* difflib.SequenceMatcher on two sequences of lines, with no junk (the    *)
(* autojunk heuristic needs 200 or more lines).  Ranges are Python's:      *)
(* 0-based and half-open, so a[i] of the code is a[i + 1] here.            *)
(***************************************************************************)
\* Length of the common run that ends at a[i], b[j] and starts no earlier
\* than alo, blo: the value k = j2len[j] of find_longest_match.
RECURSIVE RunLen(_, _, _, _, _, _)
RunLen(a, b, i, j, alo, blo) ==
    IF i < alo \/ j < blo THEN 0
    ELSE IF a[i + 1] # b[j + 1] THEN 0
    ELSE 1 + RunLen(a, b, i - 1, j - 1, alo, blo)

\* find_longest_match: <<besti, bestj, bestsize>>.  The longest common block
\* of a[alo:ahi] and b[blo:bhi]; of several, the one that starts earliest in
\* a and, of those, earliest in b (a block replaces the best only when
\* strictly longer, rows i ascending, columns j ascending).
find_longest_match(a, b, alo, ahi, blo, bhi) ==
    LET ends == {ij \in (alo..(ahi - 1)) \X (blo..(bhi - 1)) :
                    RunLen(a, b, ij[1], ij[2], alo, blo) > 0}
    IN  IF ends = {} THEN << alo, blo, 0 >>
        ELSE LET best == Max({RunLen(a, b, ij[1], ij[2], alo, blo) : ij \in ends})
                 longest == {ij \in ends : RunLen(a, b, ij[1], ij[2], alo, blo) = best}
                 i == Min({ij[1] : ij \in longest})
                 j == Min({ij[2] : ij \in {x \in longest : x[1] = i}})
             IN  << i - best + 1, j - best + 1, best >>

\* The recursion of get_matching_blocks: the longest block, then the blocks
\* to its left and to its right.
RECURSIVE MatchingBlockSet(_, _, _, _, _, _)
MatchingBlockSet(a, b, alo, ahi, blo, bhi) ==
    LET m == find_longest_match(a, b, alo, ahi, blo, bhi)
        i == m[1]
        j == m[2]
        k == m[3]
    IN  IF k = 0 THEN {}
        ELSE {m}
             \cup (IF alo < i /\ blo < j
                   THEN MatchingBlockSet(a, b, alo, i, blo, j) ELSE {})
             \cup (IF i + k < ahi /\ j + k < bhi
                   THEN MatchingBlockSet(a, b, i + k, ahi, j + k, bhi) ELSE {})

\* matching_blocks.sort()
RECURSIVE SortBlocks(_)
SortBlocks(S) ==
    IF S = {} THEN << >>
    ELSE LET first == CHOOSE m \in S : \A o \in S : m[1] <= o[1]
         IN  << first >> \o SortBlocks(S \ {first})

\* Adjacent blocks are collapsed into one.
RECURSIVE CollapseBlocks(_)
CollapseBlocks(blocks) ==
    IF Len(blocks) < 2 THEN blocks
    ELSE LET x == blocks[1]
             y == blocks[2]
         IN  IF x[1] + x[3] = y[1] /\ x[2] + x[3] = y[2]
             THEN CollapseBlocks(<< << x[1], x[2], x[3] + y[3] >> >>
                                 \o SubSeq(blocks, 3, Len(blocks)))
             ELSE << x >> \o CollapseBlocks(Tail(blocks))

\* get_matching_blocks, with its closing sentinel (len(a), len(b), 0).
get_matching_blocks(a, b) ==
    CollapseBlocks(SortBlocks(MatchingBlockSet(a, b, 0, Len(a), 0, Len(b))))
    \o << << Len(a), Len(b), 0 >> >>

\* get_opcodes: <<tag, i1, i2, j1, j2>> in document order.
RECURSIVE OpcodesFrom(_, _, _)
OpcodesFrom(blocks, i, j) ==
    IF blocks = << >> THEN << >>
    ELSE LET ai == blocks[1][1]
             bj == blocks[1][2]
             size == blocks[1][3]
             tag == IF i < ai /\ j < bj THEN "replace"
                    ELSE IF i < ai THEN "delete"
                    ELSE IF j < bj THEN "insert"
                    ELSE ""
         IN  (IF tag # "" THEN << << tag, i, ai, j, bj >> >> ELSE << >>)
             \o (IF size > 0
                 THEN << << "equal", ai, ai + size, bj, bj + size >> >>
                 ELSE << >>)
             \o OpcodesFrom(Tail(blocks), ai + size, bj + size)

get_opcodes(a, b) == OpcodesFrom(get_matching_blocks(a, b), 0, 0)

\* The lines xs[lo:hi], each behind the marker mark.
Marked(mark, xs, lo, hi) == [n \in 1..(hi - lo) |-> mark \o xs[lo + n]]

RECURSIVE DiffBody(_, _, _)
DiffBody(ops, a, b) ==
    IF ops = << >> THEN << >>
    ELSE LET op == ops[1]
             tag == op[1]
         IN  (IF tag = "equal" THEN Marked(" ", a, op[2], op[3]) ELSE << >>)
             \o (IF tag \in {"replace", "delete"}
                 THEN Marked("-", a, op[2], op[3]) ELSE << >>)
             \o (IF tag \in {"replace", "insert"}
                 THEN Marked("+", b, op[4], op[5]) ELSE << >>)
             \o DiffBody(Tail(ops), a, b)

\* difflib.unified_diff(a, b, lineterm="") with empty file names: nothing
\* when a and b are equal; otherwise the two file header lines, then hunks.
\* Hunk grouping (3 lines of context) only decides which equal lines are
\* shown behind " " and where "@@" range lines stand; every removed line is
\* shown behind "-" and every added line behind "+" exactly once.
unified_diff(a, b) ==
    LET ops == get_opcodes(a, b)
    IN  IF \A n \in 1..Len(ops) : ops[n][1] = "equal" THEN << >>
        ELSE << "--- ", "+++ ", "@@" >> \o DiffBody(ops, a, b)


(***************************************************************************)
(* import_analyzer.generate_diff_summary                                   *)
(***************************************************************************)
\* `line.startswith("+") and not line.startswith("+++")`
CountsAsAdded(line) == startswith(line, "+") /\ ~startswith(line, "+++")

\* `elif line.startswith("-") and not line.startswith("---")`
CountsAsRemoved(line) ==
    /\ ~CountsAsAdded(line)
    /\ startswith(line, "-") /\ ~startswith(line, "---")

\* The counting loop over the lines of the diff.
CountAdded(diff) == Cardinality({n \in 1..Len(diff) : CountsAsAdded(diff[n])})
CountRemoved(diff) == Cardinality({n \in 1..Len(diff) : CountsAsRemoved(diff[n])})

\* The summary string built from the two counts.
RenderSummary(added, removed) ==
    LET changed == IF added < removed THEN added ELSE removed
        pure_added == added - changed
        pure_removed == removed - changed
        parts == (IF pure_added > 0 THEN << "+" \o ToString(pure_added) >> ELSE << >>)
                 \o (IF pure_removed > 0 THEN << "-" \o ToString(pure_removed) >> ELSE << >>)
                 \o (IF changed > 0 THEN << "~" \o ToString(changed) >> ELSE << >>)
    IN  IF parts # << >> THEN join(" ", parts) ELSE "no changes"

generate_diff_summary(existing_text, incoming_text) ==
    LET existing_lines == splitlines(existing_text, TRUE)
        incoming_lines == splitlines(incoming_text, TRUE)
        diff == unified_diff(existing_lines, incoming_lines)
        added == CountAdded(diff)
        removed == CountRemoved(diff)
    IN  RenderSummary(added, removed)


(***************************************************************************)
(* import_analyzer.compare_agents and what it calls                        *)
(***************************************************************************)
\* A directory with no entry.
EmptyDir == [n \in {} |-> ""]

\* A file on disk or in the archive: its text, whether parse_agent_file
\* succeeds on it ("fail": not UTF-8, or a frontmatter that is no mapping),
\* and the name its frontmatter gives, if any.
File(text) ==
    [text |-> text, parse |-> "ok", meta_name |-> None, readable |-> TRUE]
NamedFile(name, text) ==
    [text |-> text, parse |-> "ok", meta_name |-> Some(name), readable |-> TRUE]
BadFile(text) ==
    [text |-> text, parse |-> "fail", meta_name |-> None, readable |-> TRUE]
\* A file that open() refuses (no read permission).
UnreadableFile(text) ==
    [text |-> text, parse |-> "fail", meta_name |-> None, readable |-> FALSE]

\* models.Agent (the fields the reconciliation reads).
Agent(name, agent_type, file_path, full_content) ==
    [name |-> name, agent_type |-> agent_type, file_path |-> file_path,
     full_content |-> full_content]

\* find_local_agent_path: Optional[Path]; a path is <<scope, file name>>.
find_local_agent_path(agent_name, agent_type, home, cwd) ==
    LET filename == agent_name \o ".md"
    IN  IF agent_type = "user"
        THEN IF filename \in DOMAIN home THEN Some(<< "user", filename >>) ELSE None
        ELSE IF agent_type = "project"
        THEN IF filename \in DOMAIN cwd THEN Some(<< "project", filename >>) ELSE None
        ELSE None

\* A digest that reads the first line of the text only.
FirstLineHash(content) ==
    << "sha256", IF FirstNewline(content) = 0 THEN content
                 ELSE SubSeq(content, 1, FirstNewline(content)) >>

\* _compute_content_hash: the SHA-256 digest of the UTF-8 bytes, taken to be
\* free of collisions: the digest determines the text.
_compute_content_hash(content) == << "sha256", content >>

\* models.AgentComparison
AgentComparison(agent, status, local_path, local_content, archive_content, summary) ==
    [agent |-> agent, status |-> status, local_path |-> local_path,
     local_content |-> local_content, archive_content |-> archive_content,
     diff_summary |-> summary]

compare_agents(arch, loc, home, cwd) ==
    IF IsNone(loc)
    THEN AgentComparison(arch, "NEW", None, None,
                         OrEmpty(arch.full_content), None)
    ELSE LET local_path == find_local_agent_path(arch.name, arch.agent_type,
                                                 home, cwd)
             archive_content == OrEmpty(arch.full_content)
             local_content == OrEmpty(Value(loc).full_content)
             archive_hash == _compute_content_hash(archive_content)
             local_hash == _compute_content_hash(local_content)
         IN  IF archive_hash = local_hash
             THEN AgentComparison(arch, "IDENTICAL", local_path,
                                  Some(local_content), archive_content, None)
             ELSE AgentComparison(arch, "CHANGED", local_path,
                                  Some(local_content), archive_content,
                                  Some(generate_diff_summary(local_content,
                                                             archive_content)))

\* No analysis in progress.
ParseIdle ==
    /\ source_file = None
    /\ parsed = None

InteractiveIdle ==
    /\ choices = << >>
    /\ merge = None
    /\ merged_content = None

DialogIdle ==
    /\ file_merge = None
    /\ selection = None

ImportIdle ==
    /\ request = None
    /\ queue = << >>
    /\ stats = None
    /\ cwd_skills = EmptyDir
    /\ cwd_claude = FALSE
    /\ processed = << >>
    /\ unwritable = {}
    /\ prompt = None
    /\ run_summary = None
    /\ cli = None

SkillCompareIdle ==
    /\ local_skill = None
    /\ archive_skill = None
    /\ skill_diff = None

ResolveIdle ==
    /\ skills_base = EmptyDir
    /\ conflict = None
    /\ calls = << >>

AnalysisIdle ==
    /\ archive = None
    /\ temp_dir = None
    /\ metadata = None
    /\ archive_agents = << >>
    /\ comparisons = << >>
    /\ outcome = None
    /\ tree0 = None
    /\ first_run = None

(***************************************************************************)
(* The comparator on its own: compare_agents and generate_diff_summary     *)
(* called on every pair of texts within the bounds.                        *)
(***************************************************************************)
Texts == TextsUpTo(MaxTextLen)

\* The texts of the repository's own diff-summary scenario, one letter per
\* line: "Line 1\nLine 2\n" against "Line 1\nModified Line 2\nLine 3\n".
ScenarioExisting == "a\nb\n"
ScenarioIncoming == "a\nc\nd\n"

\* An Optional[str] whose `or ""` is text: the text itself or, for the
\* empty text, also None.
OptionalOf(text) == {Some(text)} \cup (IF text = "" THEN {None} ELSE {})

CompareInit ==
    /\ ParseIdle
    /\ InteractiveIdle
    /\ DialogIdle
    /\ pc = "start"
    /\ \E pair \in (Texts \X Texts) \cup {<< ScenarioExisting, ScenarioIncoming >>} :
           /\ existing = pair[1]
           /\ incoming = pair[2]
    /\ archive_agent \in {Agent("agent", "user", << "user-agents", "agent.md" >>, c) :
                               c \in OptionalOf(incoming)}
    /\ local_agent \in {None}
           \cup {Some(Agent("agent", "user", << "user", "agent.md" >>, c)) :
                     c \in OptionalOf(existing)}
    /\ home_agents \in {EmptyDir, [n \in {"agent.md"} |-> File(existing)]}
    /\ cwd_agents = EmptyDir
    /\ comparison = None
    /\ diff_summary = None
    /\ AnalysisIdle
    /\ ResolveIdle
    /\ SkillCompareIdle
    /\ ImportIdle

CompareAgents ==
    /\ pc = "start"
    /\ comparison' = Some(compare_agents(archive_agent, local_agent,
                                         home_agents, cwd_agents))
    /\ pc' = "compared"
    /\ UNCHANGED << parse_vars, interactive_vars, dialog_vars, resolve_vars, skillcmp_vars, import_vars, tree_vars, existing, incoming, archive_agent, local_agent,
                    diff_summary, analysis_vars >>

GenerateDiffSummary ==
    /\ pc = "start"
    /\ diff_summary' = Some(generate_diff_summary(existing, incoming))
    /\ pc' = "summarized"
    /\ UNCHANGED << parse_vars, interactive_vars, dialog_vars, resolve_vars, skillcmp_vars, import_vars, tree_vars, existing, incoming, archive_agent, local_agent,
                    comparison, analysis_vars >>

CompareNext == CompareAgents \/ GenerateDiffSummary

SpecCompare == CompareInit /\ [][CompareNext]_vars


(***************************************************************************)
(* Claims about the comparator (checked under SpecCompare).                *)
(***************************************************************************)
Statuses == {"NEW", "CHANGED", "IDENTICAL"}

\* C1: compare_agents is total and classifies by content only: it returns
\* exactly one status; NEW iff the local agent is absent; IDENTICAL iff a
\* local agent is present and its full content equals the archive agent's
\* (a missing content counting as the empty text); CHANGED in every other
\* case; NEW and IDENTICAL results carry no diff summary.
C1_CompareAgentsClassifiesByContent ==
    pc = "compared" =>
        /\ ~IsNone(comparison)
        /\ LET c == Value(comparison)
               same == /\ ~IsNone(local_agent)
                       /\ OrEmpty(Value(local_agent).full_content)
                              = OrEmpty(archive_agent.full_content)
           IN  /\ c.status \in Statuses
               /\ c.status = "NEW" <=> IsNone(local_agent)
               /\ c.status = "IDENTICAL" <=> same
               /\ c.status = "CHANGED" <=> (~IsNone(local_agent) /\ ~same)
               /\ c.status \in {"NEW", "IDENTICAL"} => IsNone(c.diff_summary)

\* A local agent with empty content compared with an archive agent whose
\* content is missing: IDENTICAL.
C1_Witness ==
    /\ pc = "compared"
    /\ ~IsNone(local_agent)
    /\ IsNone(archive_agent.full_content)
    /\ Value(local_agent).full_content = Some("")
    /\ Value(comparison).status = "IDENTICAL"

\* C2: generate_diff_summary(existing, incoming) is "no changes" if and only
\* if existing = incoming; so every comparison with status CHANGED has a
\* diff summary that is present and is not "no changes", also when the
\* differing lines begin with '-', '--', '---', '+' or '++'.
C2_NoChangesIffEqual ==
    /\ pc = "summarized" =>
           (diff_summary = Some("no changes") <=> existing = incoming)
    /\ (pc = "compared" /\ Value(comparison).status = "CHANGED") =>
           /\ ~IsNone(Value(comparison).diff_summary)
           /\ Value(comparison).diff_summary # Some("no changes")

\* The lines the line diff marks as added (A) and as removed (R): the lines
\* of the incoming text, and of the existing text, outside every equal block.
RawAdded(a, b) ==
    LET ops == get_opcodes(a, b)
    IN  Cardinality({j \in 0..(Len(b) - 1) :
            \A n \in 1..Len(ops) :
                ops[n][1] = "equal" => ~(ops[n][4] <= j /\ j < ops[n][5])})

RawRemoved(a, b) ==
    LET ops == get_opcodes(a, b)
    IN  Cardinality({i \in 0..(Len(a) - 1) :
            \A n \in 1..Len(ops) :
                ops[n][1] = "equal" => ~(ops[n][2] <= i /\ i < ops[n][3])})

\* "+pure_added -pure_removed ~modified" with the zero-valued terms left out.
ExpectedSummary(A, R) ==
    LET modified == Min({A, R})
        terms == << << "+", A - modified >>, << "-", R - modified >>,
                    << "~", modified >> >>
        shown == SelectSeq(terms, LAMBDA t : t[2] > 0)
    IN  join(" ", [n \in 1..Len(shown) |-> shown[n][1] \o ToString(shown[n][2])])

\* C3: with A the number of lines the line diff marks as added and R the
\* number it marks as removed, generate_diff_summary reports
\* modified = min(A, R), pure_added = A - modified, pure_removed = R - modified
\* as the terms "+pure_added", "-pure_removed", "~modified" in that order,
\* zero-valued terms omitted; "Line 1\nLine 2\n" against
\* "Line 1\nModified Line 2\nLine 3\n" gives "+1 ~1".
C3_SummaryCountsRawDiffLines ==
    pc = "summarized" =>
        LET a == splitlines(existing, TRUE)
            b == splitlines(incoming, TRUE)
        IN  /\ a # b => diff_summary = Some(ExpectedSummary(RawAdded(a, b),
                                                            RawRemoved(a, b)))
            /\ (existing = ScenarioExisting /\ incoming = ScenarioIncoming) =>
                   diff_summary = Some("+1 ~1")


(***************************************************************************)
(* import_analyzer.analyze_import_archive and what it calls                *)
(***************************************************************************)
\* No comparator call of its own in progress.
CompareIdle ==
    /\ existing = ""
    /\ incoming = ""
    /\ archive_agent = None
    /\ local_agent = None
    /\ comparison = None
    /\ diff_summary = None

\* What an operation returned or raised.
Returned(v) == [kind |-> "return", value |-> v]
Raised(exc, message) == [kind |-> "raise", exc |-> exc, message |-> message]

\* `sub in s`
Contains(s, sub) ==
    \E i \in 1..(Len(s) - Len(sub) + 1) : SubSeq(s, i, i + Len(sub) - 1) = sub

\* str.endswith
endswith(s, suffix) ==
    /\ Len(s) >= Len(suffix)
    /\ SubSeq(s, Len(s) - Len(suffix) + 1, Len(s)) = suffix

\* pathlib: the position of the dot that opens the suffix of a file name,
\* 0 when the name has no suffix (no dot, a leading dot only, a final dot).
SuffixDot(name) ==
    LET dots == {i \in 1..Len(name) : CharAt(name, i) = "."}
        last == IF dots = {} THEN 0 ELSE Max(dots)
    IN  IF 1 < last /\ last < Len(name) THEN last ELSE 0

\* Path(name).stem and Path(name).suffix
PathStem(name) ==
    IF SuffixDot(name) = 0 THEN name ELSE SubSeq(name, 1, SuffixDot(name) - 1)
PathSuffix(name) ==
    IF SuffixDot(name) = 0 THEN "" ELSE SubSeq(name, SuffixDot(name), Len(name))

\* parser.parse_agent_file: Optional[Agent]; None when reading or parsing
\* raises.  The name is the frontmatter's, the file's stem without one.
parse_agent_file(file_path, file) ==
    IF file.parse # "ok" THEN None
    ELSE Some(Agent(IF IsNone(file.meta_name)
                    THEN PathStem(file_path[Len(file_path)])
                    ELSE Value(file.meta_name),
                    "unknown", file_path, Some(file.text)))

\* A directory tree: path (a sequence of components) -> file.
EmptyTree == [q \in {} |-> File("")]

\* directory.glob('*.md'): the files right under dirname named *.md.
GlobMd(tree, dirname) ==
    {q \in DOMAIN tree : Len(q) = 2 /\ q[1] = dirname /\ endswith(q[2], ".md")}

\* _find_agents_in_directory: the agents of the files that parse, each
\* given agent_type (as a set: glob yields them in no stated order).
_find_agents_in_directory(tree, dirname, agent_type) ==
    {[Value(parse_agent_file(q, tree[q])) EXCEPT !.agent_type = agent_type] :
        q \in {g \in GlobMd(tree, dirname) : ~IsNone(parse_agent_file(g, tree[g]))}}

\* Every order in which the elements of S can be listed.
RECURSIVE Orderings(_)
Orderings(S) ==
    IF S = {} THEN {<< >>}
    ELSE UNION {{<< x >> \o rest : rest \in Orderings(S \ {x})} : x \in S}

\* str.strip()
Whitespace == {" ", "\n", "\t", "\r"}
RECURSIVE strip(_)
strip(s) ==
    IF s = "" THEN s
    ELSE IF CharAt(s, 1) \in Whitespace THEN strip(SubSeq(s, 2, Len(s)))
    ELSE IF CharAt(s, Len(s)) \in Whitespace THEN strip(SubSeq(s, 1, Len(s) - 1))
    ELSE s

\* The metadata lines folded into a dict, a later key replacing an earlier.
\* line.split(":", 1) splits at the first colon of the line.
LastColon(colons) == Max(colons)
SplitColon(colons) == Min(colons)

RECURSIVE MetadataFrom(_, _)
MetadataFrom(lines, dict) ==
    IF lines = << >> THEN dict
    ELSE LET line == strip(lines[1])
             colons == {i \in 1..Len(line) : CharAt(line, i) = ":"}
         IN  IF colons = {} THEN MetadataFrom(Tail(lines), dict)
             ELSE LET c == SplitColon(colons)
                      key == strip(SubSeq(line, 1, c - 1))
                      val == strip(SubSeq(line, c + 1, Len(line)))
                  IN  MetadataFrom(Tail(lines),
                                   [k \in DOMAIN dict \cup {key} |->
                                       IF k = key THEN val ELSE dict[k]])

EmptyDict == [k \in {} |-> ""]

\* _parse_metadata_file: the empty dict when the file cannot be read.
_parse_metadata_file(file) ==
    IF file.parse # "ok" THEN EmptyDict
    ELSE MetadataFrom(splitlines(file.text, TRUE), EmptyDict)

\* models.ImportPreview, a dataclass: the fields declared without a default
\* are required by its constructor, the others default to 0.
ImportPreviewRequired == {"archive_path", "metadata", "comparisons", "skill_comparisons"}
ImportPreviewDefaulted ==
    {"user_agents_count", "project_agents_count", "new_count", "changed_count",
     "identical_count", "user_skills_count", "project_skills_count",
     "skill_new_count", "skill_changed_count", "skill_identical_count"}

\* ImportPreview(**kwargs): the instance, or the TypeError of a call that
\* leaves a required field out.
ImportPreview(kwargs) ==
    IF ImportPreviewRequired \subseteq DOMAIN kwargs
    THEN Returned([f \in DOMAIN kwargs \cup ImportPreviewDefaulted |->
                      IF f \in DOMAIN kwargs THEN kwargs[f] ELSE 0])
    ELSE Raised("TypeError", "__init__() missing required positional argument")

\* `sum(1 for c in comparisons if c.status == status)`
CountStatus(cs, status) == Cardinality({n \in 1..Len(cs) : cs[n].status = status})
\* `sum(1 for c in comparisons if c.agent.agent_type == agent_type)`
CountType(cs, agent_type) ==
    Cardinality({n \in 1..Len(cs) : cs[n].agent.agent_type = agent_type})

\* The keyword arguments analyze_import_archive builds its result from.
PreviewArgs ==
    [archive_path |-> "archive.tar.gz",
     metadata |-> metadata,
     comparisons |-> comparisons,
     user_agents_count |-> CountType(comparisons, "user"),
     project_agents_count |-> CountType(comparisons, "project"),
     new_count |-> CountStatus(comparisons, "NEW"),
     changed_count |-> CountStatus(comparisons, "CHANGED"),
     identical_count |-> CountStatus(comparisons, "IDENTICAL")]

\* The archives analysed: a missing file, a file that is no gzip stream, a
\* gzip-compressed tar cut short, and valid archives of up to
\* MaxArchiveEntries entries.
MemberPaths ==
    {<< "user-agents", "x.md" >>, << "user-agents", "y.md" >>,
     << "project-agents", "x.md" >>, << "project-agents", "sub", "z.md" >>,
     << "metadata.txt" >>}

MemberFiles(q) ==
    IF q = << "metadata.txt" >> THEN {File("Total Agents: 1\nnote\n")}
    ELSE {File("a\n"), File("b\n"), BadFile("a\n"),
          NamedFile("x", "---\nname: x\n---\na\n")}

ArchiveTrees ==
    UNION {{t \in [Q -> UNION {MemberFiles(q) : q \in Q}] :
               \A q \in Q : t[q] \in MemberFiles(q)} :
           Q \in {P \in SUBSET MemberPaths : Cardinality(P) <= MaxArchiveEntries}}

Archives ==
    {[exists |-> FALSE, kind |-> "missing", entries |-> EmptyTree],
     [exists |-> TRUE, kind |-> "not_gzip", entries |-> EmptyTree]}
    \cup {[exists |-> TRUE, kind |-> k, entries |-> t] :
             k \in {"valid", "truncated"}, t \in ArchiveTrees}

\* The local agent directories analysis may meet.
LocalDirs(files) == {EmptyDir} \cup {[n \in {"x.md"} |-> f] : f \in files}

AnalyzeInit ==
    /\ ParseIdle
    /\ InteractiveIdle
    /\ DialogIdle
    /\ pc = "an_start"
    /\ archive \in {Some(a) : a \in Archives}
    /\ home_agents \in LocalDirs({File("a\n"), File("b\n"), BadFile("a\n")})
    /\ cwd_agents \in LocalDirs({File("a\n")})
    /\ tree0 = Some(<< home_agents, cwd_agents >>)
    /\ temp_dir = None
    /\ metadata = None
    /\ archive_agents = << >>
    /\ comparisons = << >>
    /\ outcome = None
    /\ first_run = None
    /\ CompareIdle
    /\ ResolveIdle
    /\ SkillCompareIdle
    /\ ImportIdle

\* tempfile.TemporaryDirectory.__exit__ that leaves the directory behind.
LeftBehind(temp) == temp

\* tempfile.TemporaryDirectory.__exit__: the directory and all it holds are
\* removed, however the `with` block is left.
cleanup(temp) == None

\* Lines 38-40: the archive does not exist.
AnalyzeNotFound ==
    /\ pc = "an_start"
    /\ ~Value(archive).exists
    /\ outcome' = Some(Raised("FileNotFoundError", "Archive not found: archive.tar.gz"))
    /\ pc' = "done"
    /\ UNCHANGED << parse_vars, interactive_vars, dialog_vars, resolve_vars, skillcmp_vars, import_vars, tree_vars, compare_vars, first_run, archive, temp_dir, metadata,
                    archive_agents, comparisons, tree0 >>

\* Lines 42-47: the result lists are initialised, the temporary directory
\* is created.
AnalyzeBegin ==
    /\ pc = "an_start"
    /\ Value(archive).exists
    /\ comparisons' = << >>
    /\ metadata' = Some(EmptyDict)
    /\ temp_dir' = Some(EmptyTree)
    /\ pc' = "an_extract"
    /\ UNCHANGED << parse_vars, interactive_vars, dialog_vars, resolve_vars, skillcmp_vars, import_vars, tree_vars, compare_vars, first_run, archive, archive_agents, outcome, tree0 >>

\* An extraction that also unpacks user-agents/ into ~/.claude/agents.
ExtractIntoAgents(members, temp, home) ==
    LET names == {q[2] : q \in {m \in DOMAIN members :
                                   Len(m) = 2 /\ m[1] = "user-agents"}}
    IN  [temp |-> members,
         home |-> [n \in DOMAIN home \cup names |->
                      IF n \in names THEN members[<< "user-agents", n >>]
                      ELSE home[n]]]

\* tar.extractall(temp_path): the members land in the temporary directory,
\* the agents directory is not written.
extractall(members, temp, home) == [temp |-> members, home |-> home]

\* Lines 50-52: the archive is extracted into the temporary directory.
AnalyzeExtract ==
    /\ pc = "an_extract"
    /\ Value(archive).kind = "valid"
    /\ LET extracted == extractall(Value(archive).entries, Value(temp_dir),
                                   home_agents)
       IN  /\ temp_dir' = Some(extracted.temp)
           /\ home_agents' = extracted.home
    /\ pc' = "an_find"
    /\ UNCHANGED << parse_vars, interactive_vars, dialog_vars, resolve_vars, skillcmp_vars, import_vars, cwd_agents, compare_vars,
                    first_run, archive, metadata, archive_agents, comparisons,
                    outcome, tree0 >>

\* Lines 53-56: tarfile raises a TarError (ReadError: not a gzip file, empty
\* file, truncated header), turned into a RuntimeError; leaving the `with`
\* block removes the temporary directory.
AnalyzeExtractTarError ==
    /\ pc = "an_extract"
    /\ Value(archive).kind \in {"not_gzip", "truncated"}
    /\ outcome' = Some(Raised("RuntimeError",
                              "Failed to extract archive. File may be corrupted."))
    /\ temp_dir' = cleanup(temp_dir)
    /\ pc' = "done"
    /\ UNCHANGED << parse_vars, interactive_vars, dialog_vars, resolve_vars, skillcmp_vars, import_vars, tree_vars, compare_vars, first_run, archive, metadata, archive_agents,
                    comparisons, tree0 >>

\* Lines 51-53: reading a gzip stream that ends before its end-of-stream
\* marker raises EOFError, which is no TarError: it leaves the function as
\* it is; leaving the `with` block removes the temporary directory.
AnalyzeExtractEOFError ==
    /\ pc = "an_extract"
    /\ Value(archive).kind = "truncated"
    /\ outcome' = Some(Raised("EOFError",
           "Compressed file ended before the end-of-stream marker was reached"))
    /\ temp_dir' = cleanup(temp_dir)
    /\ pc' = "done"
    /\ UNCHANGED << parse_vars, interactive_vars, dialog_vars, resolve_vars, skillcmp_vars, import_vars, tree_vars, compare_vars, first_run, archive, metadata, archive_agents,
                    comparisons, tree0 >>

\* Lines 58-76: metadata.txt is read if present; the user agents, then the
\* project agents, are parsed from the extracted tree.
AnalyzeFind ==
    /\ pc = "an_find"
    /\ LET tree == Value(temp_dir)
       IN  /\ metadata' = IF << "metadata.txt" >> \in DOMAIN tree
                          THEN Some(_parse_metadata_file(tree[<< "metadata.txt" >>]))
                          ELSE metadata
           /\ \E user_agents \in
                     Orderings(_find_agents_in_directory(tree, "user-agents", "user")),
                 project_agents \in
                     Orderings(_find_agents_in_directory(tree, "project-agents", "project")) :
                  archive_agents' = user_agents \o project_agents
    /\ pc' = "an_compare"
    /\ UNCHANGED << parse_vars, interactive_vars, dialog_vars, resolve_vars, skillcmp_vars, import_vars, tree_vars, compare_vars, first_run, archive, temp_dir, comparisons,
                    outcome, tree0 >>

\* The local file a path returned by find_local_agent_path names.
LocalFile(path, home, cwd) ==
    IF path[1] = "user" THEN home[path[2]] ELSE cwd[path[2]]

\* Lines 79-94: one turn of the comparison loop.
AnalyzeCompare ==
    /\ pc = "an_compare"
    /\ Len(comparisons) < Len(archive_agents)
    /\ LET agent == archive_agents[Len(comparisons) + 1]
           local_path == find_local_agent_path(agent.name, agent.agent_type,
                                               home_agents, cwd_agents)
           found == IF IsNone(local_path) THEN None
                    ELSE parse_agent_file(Value(local_path),
                                          LocalFile(Value(local_path),
                                                    home_agents, cwd_agents))
       IN  comparisons' = Append(comparisons,
                                 compare_agents(agent, found, home_agents, cwd_agents))
    /\ UNCHANGED << parse_vars, interactive_vars, dialog_vars, pc, resolve_vars, skillcmp_vars, import_vars, tree_vars, compare_vars, first_run, archive, temp_dir, metadata,
                    archive_agents, outcome, tree0 >>

\* The loop is over: leaving the `with` block removes the temporary directory.
AnalyzeLeaveTemp ==
    /\ pc = "an_compare"
    /\ Len(comparisons) = Len(archive_agents)
    /\ temp_dir' = cleanup(temp_dir)
    /\ pc' = "an_summarize"
    /\ UNCHANGED << parse_vars, interactive_vars, dialog_vars, resolve_vars, skillcmp_vars, import_vars, tree_vars, compare_vars, first_run, archive, metadata, archive_agents,
                    comparisons, outcome, tree0 >>

\* Lines 96-120: the counts are taken and the ImportPreview is built from
\* them; what its constructor returns or raises is the outcome.
AnalyzeSummarize ==
    /\ pc = "an_summarize"
    /\ outcome' = Some(ImportPreview([PreviewArgs EXCEPT !.metadata = Value(metadata)]))
    /\ pc' = "done"
    /\ UNCHANGED << parse_vars, interactive_vars, dialog_vars, resolve_vars, skillcmp_vars, import_vars, tree_vars, compare_vars, first_run, archive, temp_dir, metadata,
                    archive_agents, comparisons, tree0 >>

\* The same archive is analysed once more, no import in between: what the
\* first analysis compared is kept for reference.
AnalyzeAgain ==
    /\ pc = "done"
    /\ IsNone(request)
    /\ first_run = None
    /\ first_run' = Some(comparisons)
    /\ comparisons' = << >>
    /\ archive_agents' = << >>
    /\ metadata' = None
    /\ outcome' = None
    /\ pc' = "an_start"
    /\ UNCHANGED << parse_vars, interactive_vars, dialog_vars, resolve_vars, skillcmp_vars, import_vars, tree_vars, compare_vars,
                    archive, temp_dir, tree0 >>

AnalyzeNext ==
    \/ AnalyzeAgain
    \/ AnalyzeNotFound
    \/ AnalyzeBegin
    \/ AnalyzeExtract
    \/ AnalyzeExtractTarError
    \/ AnalyzeExtractEOFError
    \/ AnalyzeFind
    \/ AnalyzeCompare
    \/ AnalyzeLeaveTemp
    \/ AnalyzeSummarize

SpecAnalyze == AnalyzeInit /\ [][AnalyzeNext]_vars

(***************************************************************************)
(* Claims about analysis (checked under SpecAnalyze).                      *)
(***************************************************************************)
ValidArchive == Value(archive).exists /\ Value(archive).kind = "valid"

\* The counts analysis takes from its comparisons add up (lines 103-109),
\* whatever becomes of them afterwards.
CountsTakenAddUp ==
    pc = "an_summarize" =>
        /\ PreviewArgs.new_count + PreviewArgs.changed_count
               + PreviewArgs.identical_count = Len(comparisons)
        /\ PreviewArgs.user_agents_count + PreviewArgs.project_agents_count
               = Len(comparisons)

ParseableAgentFiles(tree) ==
    {q \in DOMAIN tree :
        /\ Len(q) = 2
        /\ q[1] \in {"user-agents", "project-agents"}
        /\ endswith(q[2], ".md")
        /\ tree[q].parse = "ok"}

\* C5: for every archive file that exists and is a valid gzip-compressed
\* tar, analyze_import_archive completes without raising and returns an
\* ImportPreview holding one comparison per parseable agent file found in
\* the archive; for an archive with no agents the preview has zero
\* comparisons and new, changed and identical counts all zero.
C5_ValidArchiveYieldsPreview ==
    (pc = "done" /\ ValidArchive) =>
        /\ Value(outcome).kind = "return"
        /\ LET preview == Value(outcome).value
               files == ParseableAgentFiles(Value(archive).entries)
           IN  /\ Len(preview.comparisons) = Cardinality(files)
               /\ \A q \in files :
                      \E n \in 1..Len(preview.comparisons) :
                          preview.comparisons[n].agent.file_path = q
               /\ files = {} =>
                      /\ preview.comparisons = << >>
                      /\ preview.new_count = 0
                      /\ preview.changed_count = 0
                      /\ preview.identical_count = 0

\* C6: analyze_import_archive fails with two distinguishable error kinds
\* and writes nothing: a path that does not exist raises FileNotFoundError;
\* a file that exists but is not a valid (or is a truncated) compressed
\* archive raises a RuntimeError whose message says the archive may be
\* corrupted, never a generic I/O or library error; in both cases the local
\* agent tree is as it was before the call.
C6_TwoDistinguishableErrors ==
    (pc = "done" /\ ~ValidArchive) =>
        /\ Value(outcome).kind = "raise"
        /\ ~Value(archive).exists => Value(outcome).exc = "FileNotFoundError"
        /\ Value(archive).exists =>
               /\ Value(outcome).exc = "RuntimeError"
               /\ Contains(Value(outcome).message, "corrupted")
        /\ << home_agents, cwd_agents >> = Value(tree0)

\* The archive agents whose local file exists but does not parse.
UnparseableLocally(agent) ==
    LET local_path == find_local_agent_path(agent.name, agent.agent_type,
                                            home_agents, cwd_agents)
    IN  /\ ~IsNone(local_path)
        /\ IsNone(parse_agent_file(Value(local_path),
                                   LocalFile(Value(local_path), home_agents, cwd_agents)))

\* In the comparison loop itself (lines 79-94) an unparseable local file
\* degrades to NEW and the loop goes on to the other agents.
UnparseableLocalComparedAsNew ==
    pc = "an_summarize" =>
        /\ Len(comparisons) = Len(archive_agents)
        /\ \A n \in 1..Len(comparisons) :
               UnparseableLocally(archive_agents[n]) =>
                   /\ comparisons[n].status = "NEW"
                   /\ comparisons[n].local_path = None
                   /\ comparisons[n].local_content = None

\* C15: during analysis a local agent file that exists but cannot be read
\* or parsed is treated as absent: the incoming agent is classified NEW with
\* no local path and no local content, no error is raised, and every other
\* agent of the archive is still compared and appears in the preview.
C15_UnparseableLocalIsNewInPreview ==
    (pc = "done" /\ ValidArchive
         /\ \E n \in 1..Len(archive_agents) : UnparseableLocally(archive_agents[n])) =>
        /\ Value(outcome).kind = "return"
        /\ LET preview == Value(outcome).value
           IN  /\ Len(preview.comparisons) = Len(archive_agents)
               /\ \A n \in 1..Len(archive_agents) :
                      /\ preview.comparisons[n].agent = archive_agents[n]
                      /\ UnparseableLocally(archive_agents[n]) =>
                             /\ preview.comparisons[n].status = "NEW"
                             /\ preview.comparisons[n].local_path = None
                             /\ preview.comparisons[n].local_content = None

\* The status analysis gave to each archive file.
StatusByFile(cs) == {<< cs[n].agent.file_path, cs[n].status >> : n \in 1..Len(cs)}

ProjectAgentFiles(tree) ==
    {q \in DOMAIN tree :
        /\ Len(q) >= 2
        /\ q[1] = "project-agents"
        /\ endswith(q[Len(q)], ".md")
        /\ tree[q].parse = "ok"}

\* C20: project-scoped agents keep their sub-path and stay visible: analysis
\* yields exactly one comparison for each parseable .md file located at any
\* depth under project-agents/, the files the bulk import processes.
C20_NestedProjectAgentsCompared ==
    pc = "an_summarize" =>
        {comparisons[n].agent.file_path :
             n \in {k \in 1..Len(comparisons) :
                        comparisons[k].agent.agent_type = "project"}}
            = ProjectAgentFiles(Value(archive).entries)

(***************************************************************************)
(* conflict_resolver.py and skill_conflict_resolver.py: the modes that     *)
(* resolve a conflict without a prompt.                                    *)
(***************************************************************************)

\* conflict_resolver.ConflictMode (the values of the enum).
ConflictMode == {"overwrite", "keep", "duplicate", "diff"}

\* (directory / name).exists()
exists(directory, name) == name \in DOMAIN directory

\* shutil.copy2(src, directory / name) and shutil.copytree(src, directory /
\* name) to a name that is free: the entry holds what src holds, every other
\* entry of the directory is as it was.
copy2(src, directory, name) ==
    [n \in DOMAIN directory \cup {name} |-> IF n = name THEN src ELSE directory[n]]

\* f"{stem}_{counter}{suffix}"
DuplicateFileName(base_name, counter) ==
    PathStem(base_name) \o "_" \o ToString(counter) \o PathSuffix(base_name)

\* The loop of get_duplicate_name: counter goes up while the name is taken.
RECURSIVE FreeFileCounter(_, _, _)
FreeFileCounter(target_dir, base_name, counter) ==
    IF exists(target_dir, DuplicateFileName(base_name, counter))
    THEN FreeFileCounter(target_dir, base_name, counter + 1)
    ELSE counter

\* get_duplicate_name with a loop that never runs: always the suffix _1.
FirstSuffixAlways(target_dir, base_name) == DuplicateFileName(base_name, 1)

\* conflict_resolver.get_duplicate_name
get_duplicate_name(target_dir, base_name) ==
    DuplicateFileName(base_name, FreeFileCounter(target_dir, base_name, 1))

\* What a resolver leaves behind: the directory and what it returned.
Resolved(directory, result) == [directory |-> directory, outcome |-> result]

\* resolve_conflict whose KEEP branch copies the incoming file all the same.
KeepCopiesIncoming(existing_path, incoming_path, target_dir, mode) ==
    CASE mode \in {"overwrite", "keep"} ->
             Resolved(copy2(incoming_path, target_dir, existing_path),
                      Returned(Some(existing_path)))
      [] mode = "duplicate" ->
             LET dup_path == get_duplicate_name(target_dir, existing_path)
             IN  Resolved(copy2(incoming_path, target_dir, dup_path),
                          Returned(Some(dup_path)))

\* conflict_resolver.resolve_conflict for the modes without a prompt.
\* existing_path is the file's name in target_dir, incoming_path what the
\* incoming file holds; the result is the Optional[Path] returned.
resolve_conflict(existing_path, incoming_path, target_dir, mode) ==
    CASE mode = "overwrite" ->
             Resolved(copy2(incoming_path, target_dir, existing_path),
                      Returned(Some(existing_path)))
      [] mode = "keep" ->
             Resolved(target_dir, Returned(Some(existing_path)))
      [] mode = "duplicate" ->
             LET dup_path == get_duplicate_name(target_dir, existing_path)
             IN  Resolved(copy2(incoming_path, target_dir, dup_path),
                          Returned(Some(dup_path)))

\* A directory path: its last component and, when it exists, its files
\* (relative path -> file).
Dir(name, files) == [name |-> name, files |-> files]

\* skill_conflict_resolver.hash_file: the digest of the bytes, the empty
\* string for a file that cannot be read.
hash_file(file) == IF file.readable THEN "sha256:" \o file.text ELSE ""

\* {rel_path: hash_file(path)} over directory.rglob("*").
HashAll(files) == [rel_path \in DOMAIN files |-> hash_file(files[rel_path])]

\* models.Skill (the fields conflict resolution reads).
Skill(name, skill_md_content) ==
    [name |-> name, skill_md_content |-> skill_md_content]

\* skill_parser.parse_skill_md: the metadata's name, the parent directory's
\* name without one; None when reading or parsing raises.
parse_skill_md(parent_name, file) ==
    IF file.parse # "ok" THEN None
    ELSE Some([name |-> IF IsNone(file.meta_name) THEN parent_name
                        ELSE Value(file.meta_name),
               full_content |-> file.text])

\* skill_parser.parse_skill_directory: Optional[Skill].
parse_skill_directory(skill_dir) ==
    IF ~exists(Value(skill_dir.files), "SKILL.md") THEN None
    ELSE LET skill_md == parse_skill_md(skill_dir.name,
                                        Value(skill_dir.files)["SKILL.md"])
         IN  IF IsNone(skill_md) THEN None
             ELSE Some(Skill(Value(skill_md).name, Value(skill_md).full_content))

\* f"+{len(added_files)} -{len(removed_files)} ~{len(modified_files)}"
SkillDiffSummary(added_files, removed_files, modified_files) ==
    "+" \o ToString(Cardinality(added_files))
        \o " -" \o ToString(Cardinality(removed_files))
        \o " ~" \o ToString(Cardinality(modified_files))

\* The status of lines 85-90 when every common path counts as modified.
AllCommonModified(existing_files, incoming_files) ==
    LET common == DOMAIN existing_files \cap DOMAIN incoming_files
        added_files == DOMAIN incoming_files \ DOMAIN existing_files
        removed_files == DOMAIN existing_files \ DOMAIN incoming_files
        status == IF DOMAIN existing_files = {} THEN "NEW"
                  ELSE IF added_files \cup removed_files \cup common # {}
                       THEN "CHANGED" ELSE "IDENTICAL"
    IN  [added_files |-> added_files, removed_files |-> removed_files,
         modified_files |-> common, status |-> status,
         diff_summary |-> IF status = "CHANGED"
                          THEN Some(SkillDiffSummary(added_files, removed_files, common))
                          ELSE None]

\* compare_skill_directories, lines 71-95: the differences between two
\* {rel_path: digest} mappings.  The sorted lists of relative paths are kept
\* as the sets they list.
DirectoryDiff(existing_files, incoming_files) ==
    LET existing_set == DOMAIN existing_files
        incoming_set == DOMAIN incoming_files
        added_files == incoming_set \ existing_set
        removed_files == existing_set \ incoming_set
        modified_files == {rel_path \in existing_set \cap incoming_set :
                               existing_files[rel_path] # incoming_files[rel_path]}
        status == IF existing_set = {} THEN "NEW"
                  ELSE IF added_files \cup removed_files \cup modified_files # {}
                       THEN "CHANGED"
                       ELSE "IDENTICAL"
    IN  [added_files |-> added_files, removed_files |-> removed_files,
         modified_files |-> modified_files, status |-> status,
         diff_summary |-> IF status = "CHANGED"
                          THEN Some(SkillDiffSummary(added_files, removed_files,
                                                     modified_files))
                          ELSE None]

\* compare_skill_directories, lines 54-67: the two digest mappings.
ExistingFiles(existing_dir) ==
    IF IsNone(existing_dir.files) THEN EmptyDir ELSE HashAll(Value(existing_dir.files))
IncomingFiles(incoming_dir) == HashAll(Value(incoming_dir.files))

\* skill_conflict_resolver.compare_skill_directories.
compare_skill_directories(existing_dir, incoming_dir) ==
    LET existing_files == ExistingFiles(existing_dir)
        incoming_files == IncomingFiles(incoming_dir)
        diff == DirectoryDiff(existing_files, incoming_files)
        skill == parse_skill_directory(incoming_dir)
    IN  IF IsNone(skill)
        THEN Raised("ValueError", "Failed to parse skill directory")
        ELSE Returned([skill |-> Value(skill),
                       status |-> diff.status,
                       local_path |-> IF IsNone(existing_dir.files) THEN None
                                      ELSE Some(existing_dir.name),
                       local_files |-> existing_files,
                       archive_files |-> incoming_files,
                       added_files |-> diff.added_files,
                       removed_files |-> diff.removed_files,
                       modified_files |-> diff.modified_files,
                       diff_summary |-> diff.diff_summary])

\* f"{skill_name}_{counter}"
DuplicateSkillName(skill_name, counter) == skill_name \o "_" \o ToString(counter)

\* The loop of get_duplicate_skill_name.
RECURSIVE FreeSkillCounter(_, _, _)
FreeSkillCounter(target_base, skill_name, counter) ==
    IF exists(target_base, DuplicateSkillName(skill_name, counter))
    THEN FreeSkillCounter(target_base, skill_name, counter + 1)
    ELSE counter

\* skill_conflict_resolver.get_duplicate_skill_name
get_duplicate_skill_name(target_base, skill_name) ==
    DuplicateSkillName(skill_name, FreeSkillCounter(target_base, skill_name, 1))

\* skill_conflict_resolver.resolve_skill_conflict for the modes without a
\* prompt.  existing_dir is the directory's name in target_base; the
\* comparison comes first, and what it raises leaves the function.
resolve_skill_conflict(existing_dir, incoming_dir, target_base, mode) ==
    LET compared == compare_skill_directories(
                          Dir(existing_dir, Some(target_base[existing_dir])),
                          incoming_dir)
    IN  IF compared.kind = "raise" THEN Resolved(target_base, compared)
        ELSE CASE mode = "overwrite" ->
                      \* rmtree(existing_dir), copytree(incoming_dir, existing_dir);
                      \* restore_permissions changes no name and no content
                      Resolved(copy2(Value(incoming_dir.files), target_base,
                                     existing_dir),
                               Returned(TRUE))
               [] mode = "keep" ->
                      Resolved(target_base, Returned(FALSE))
               [] mode = "duplicate" ->
                      LET dup_path == get_duplicate_skill_name(
                                          target_base, compared.value.skill.name)
                      IN  Resolved(copy2(Value(incoming_dir.files), target_base,
                                         dup_path),
                                   Returned(TRUE))

(***************************************************************************)
(* Conflicts met by an import and resolved one call after the other.       *)
(***************************************************************************)
MaxResolves == 3     \* resolver calls in one run
MaxDupSuffix == 2    \* name_1 .. name_MaxDupSuffix may exist beforehand

\* The modes that resolve without a prompt.
PolicyModes == {"overwrite", "keep", "duplicate"}

AgentName == "agent.md"
SkillName == "skill"

\* The agents directory: the conflicting file, an unrelated one, and
\* earlier duplicates under the suffixes of S.
AgentsDirWith(file, S) ==
    [n \in {AgentName, "other.md"} \cup {DuplicateFileName(AgentName, k) : k \in S} |->
        IF n = AgentName THEN file
        ELSE IF n = "other.md" THEN File("other\n") ELSE File("old\n")]

AgentTexts == {File("x\n"), File("y\n")}

SkillMdFiles ==
    {NamedFile(SkillName, "---\nname: skill\n---\n"),
     NamedFile("alt", "---\nname: alt\n---\n"),
     File("plain\n"),
     BadFile("---\n- item\n---\n")}

\* A skill directory's files: SKILL.md or none, run.sh or none.
SkillTrees(skill_mds, scripts) ==
    {[rel_path \in {"SKILL.md"} |-> md] : md \in skill_mds}
        \cup {[rel_path \in {"run.sh"} |-> sh] : sh \in scripts}
        \cup {[rel_path \in {"SKILL.md", "run.sh"} |->
                   IF rel_path = "SKILL.md" THEN p[1] ELSE p[2]] :
                  p \in skill_mds \X scripts}
        \cup {EmptyTree}

IncomingSkills == SkillTrees(SkillMdFiles, {File("x\n"), File("y\n")}) \ {EmptyTree}

ExistingSkills ==
    SkillTrees({NamedFile(SkillName, "---\nname: skill\n---\n")}, {File("x\n")})

\* The skills directory: the conflicting skill, an unrelated one, and
\* earlier duplicates under the suffixes of S.
SkillsBaseWith(files, S) ==
    [n \in {SkillName, "other"} \cup {DuplicateSkillName(SkillName, k) : k \in S} |->
        IF n = SkillName THEN files
        ELSE [rel_path \in {"SKILL.md"} |-> File("old\n")]]

Conflict(agent, skill) == [agent |-> agent, skill |-> skill]

\* An agent conflict, a skill conflict, or (one case) both in the same import.
ResolveInit ==
    /\ ParseIdle
    /\ InteractiveIdle
    /\ DialogIdle
    /\ pc = "resolving"
    /\ \/ /\ \E file \in AgentTexts, S \in SUBSET (1..MaxDupSuffix) :
                 home_agents = AgentsDirWith(file, S)
          /\ skills_base = EmptyDir
          /\ \E inc \in AgentTexts :
                 conflict = Some(Conflict(Some(Dir(AgentName, Some(inc))), None))
       \/ /\ home_agents = EmptyDir
          /\ \E files \in ExistingSkills, S \in SUBSET (1..MaxDupSuffix) :
                 skills_base = SkillsBaseWith(files, S)
          /\ \E inc \in IncomingSkills :
                 conflict = Some(Conflict(None, Some(Dir(SkillName, Some(inc)))))
       \/ /\ home_agents = AgentsDirWith(File("x\n"), {})
          /\ skills_base = SkillsBaseWith(
                 [rel_path \in {"SKILL.md"} |->
                      NamedFile(SkillName, "---\nname: skill\n---\n")], {})
          /\ conflict = Some(Conflict(
                 Some(Dir(AgentName, Some(File("y\n")))),
                 Some(Dir(SkillName,
                          Some([rel_path \in {"SKILL.md"} |-> File("plain\n")])))))
    /\ cwd_agents = EmptyDir
    /\ calls = << >>
    /\ CompareIdle
    /\ AnalysisIdle
    /\ SkillCompareIdle
    /\ ImportIdle

Disk == [agents |-> home_agents, skills |-> skills_base]

Call(kind, mode, incoming_item, before, after, result) ==
    [kind |-> kind, mode |-> mode, incoming |-> incoming_item,
     before |-> before, after |-> after, outcome |-> result]

\* transfer.py: `if target.exists(): resolve_conflict(target, agent_file,
\* user_agents_dir, conflict_mode)`
ResolveConflict ==
    /\ pc = "resolving"
    /\ Len(calls) < MaxResolves
    /\ ~IsNone(Value(conflict).agent)
    /\ LET agent_file == Value(Value(conflict).agent)
       IN  /\ exists(home_agents, agent_file.name)
           /\ \E mode \in PolicyModes :
                  LET r == resolve_conflict(agent_file.name, Value(agent_file.files),
                                            home_agents, mode)
                  IN  /\ home_agents' = r.directory
                      /\ calls' = Append(calls,
                             Call("agent", mode, agent_file, Disk,
                                  [Disk EXCEPT !.agents = r.directory], r.outcome))
    /\ UNCHANGED << parse_vars, interactive_vars, dialog_vars, pc, cwd_agents, skills_base, conflict, compare_vars, analysis_vars,
                    skillcmp_vars, import_vars >>

\* transfer.py: `if target_path.exists(): resolve_skill_conflict(target_path,
\* skill_dir, user_skills_base, conflict_mode)`
ResolveSkillConflict ==
    /\ pc = "resolving"
    /\ Len(calls) < MaxResolves
    /\ ~IsNone(Value(conflict).skill)
    /\ LET skill_dir == Value(Value(conflict).skill)
       IN  /\ exists(skills_base, skill_dir.name)
           /\ \E mode \in PolicyModes :
                  LET r == resolve_skill_conflict(skill_dir.name, skill_dir,
                                                  skills_base, mode)
                  IN  /\ skills_base' = r.directory
                      /\ calls' = Append(calls,
                             Call("skill", mode, skill_dir, Disk,
                                  [Disk EXCEPT !.skills = r.directory], r.outcome))
    /\ UNCHANGED << parse_vars, interactive_vars, dialog_vars, pc, tree_vars, conflict, compare_vars, analysis_vars,
                    skillcmp_vars, import_vars >>

ResolveNext ==
    \/ ResolveConflict
    \/ ResolveSkillConflict

SpecResolve == ResolveInit /\ [][ResolveNext]_vars

(***************************************************************************)
(* Claims about conflict resolution (checked under SpecResolve).           *)
(***************************************************************************)
CallsIn(mode) == {i \in 1..Len(calls) : calls[i].mode = mode}

\* The directory a call works on, before and after it.
Before(c) == IF c.kind = "agent" THEN c.before.agents ELSE c.before.skills
After(c) == IF c.kind = "agent" THEN c.after.agents ELSE c.after.skills

\* name_N for the item of a call: stem_N.suffix for a file, name_N for a
\* directory.
NameN(c, N) ==
    IF c.kind = "agent" THEN DuplicateFileName(c.incoming.name, N)
    ELSE DuplicateSkillName(c.incoming.name, N)

\* C7: resolving a conflict in OVERWRITE mode leaves the target holding
\* exactly the incoming content and nothing else: the existing file holds
\* what the incoming file holds, the existing directory holds exactly the
\* incoming directory's relative paths with the incoming contents.
C7_OverwriteLeavesIncoming ==
    \A i \in CallsIn("overwrite") :
        After(calls[i])[calls[i].incoming.name] = Value(calls[i].incoming.files)

\* C8: resolving a conflict in KEEP mode changes nothing on disk: after
\* resolve_conflict or resolve_skill_conflict the existing file or directory
\* is what it was before the call, and no other entry of the agents or the
\* skills directory is created, modified or removed.
C8_KeepChangesNothing ==
    \A i \in CallsIn("keep") : calls[i].after = calls[i].before

\* KEEP has been applied to a file and to a directory whose incoming
\* content differs from the existing one.
C8_Witness ==
    /\ \E i \in CallsIn("keep") :
           /\ calls[i].kind = "agent"
           /\ Before(calls[i])[AgentName] # Value(calls[i].incoming.files)
    /\ \E i \in CallsIn("keep") :
           /\ calls[i].kind = "skill"
           /\ Before(calls[i])[SkillName] # Value(calls[i].incoming.files)

\* C9: resolving a conflict in DUPLICATE mode writes the incoming content
\* under name_N, N the smallest positive integer such that name_N does not
\* exist in the target location at that moment (gaps included), and leaves
\* the original item and every existing name_K untouched.
C9_DuplicateTakesSmallestFreeSuffix ==
    \A i \in CallsIn("duplicate") :
        LET c == calls[i]
            free == {N \in 1..(MaxDupSuffix + MaxResolves + 1) :
                         NameN(c, N) \notin DOMAIN Before(c)}
            N == Min(free)
        IN  /\ DOMAIN After(c) = DOMAIN Before(c) \cup {NameN(c, N)}
            /\ After(c)[NameN(c, N)] = Value(c.incoming.files)
            /\ \A n \in DOMAIN Before(c) : After(c)[n] = Before(c)[n]

\* The agents directory held the file and none of its name_K when the
\* first call was made, and every call so far resolved the agent conflict
\* in DUPLICATE mode.
OnlyDuplicatesFromClean ==
    /\ calls # << >>
    /\ \A i \in 1..Len(calls) :
           calls[i].kind = "agent" /\ calls[i].mode = "duplicate"
    /\ \A K \in 1..(MaxDupSuffix + MaxResolves + 1) :
           NameN(calls[1], K) \notin DOMAIN Before(calls[1])

SkillMdChoices ==
    {NamedFile("skill", "---\nname: skill\n---\n"),
     File("plain\n"),
     BadFile("---\n- item\n---\n"),
     UnreadableFile("---\nname: skill\n---\n")}
ScriptChoices == {File("x\n"), File("y\n"), UnreadableFile("x\n")}
LibChoices == {File("x\n"), File("z\n")}

SkillFileChoices(rel_path) ==
    IF rel_path = "SKILL.md" THEN SkillMdChoices
    ELSE IF rel_path = "run.sh" THEN ScriptChoices
    ELSE LibChoices

\* Every directory holding some of SKILL.md, run.sh and lib/util.py.
ComparedTrees ==
    UNION {{t \in [P -> UNION {SkillFileChoices(q) : q \in P}] :
               \A q \in P : t[q] \in SkillFileChoices(q)} :
           P \in SUBSET {"SKILL.md", "run.sh", "lib/util.py"}}

SkillCompareInit ==
    /\ ParseIdle
    /\ InteractiveIdle
    /\ DialogIdle
    /\ pc = "sk_start"
    /\ local_skill \in {Some(Dir("skill", None))}
                          \cup {Some(Dir("skill", Some(t))) : t \in ComparedTrees}
    /\ archive_skill \in {Some(Dir("skill", Some(t))) : t \in ComparedTrees}
    /\ skill_diff = None
    /\ outcome = None
    /\ home_agents = EmptyDir
    /\ cwd_agents = EmptyDir
    /\ CompareIdle
    /\ archive = None
    /\ temp_dir = None
    /\ metadata = None
    /\ archive_agents = << >>
    /\ comparisons = << >>
    /\ tree0 = None
    /\ first_run = None
    /\ ResolveIdle
    /\ ImportIdle

\* One call of compare_skill_directories: the differences of lines 71-95
\* and what the call returned or raised.
CompareSkillDirectories ==
    /\ pc = "sk_start"
    /\ skill_diff' = Some(DirectoryDiff(ExistingFiles(Value(local_skill)),
                                        IncomingFiles(Value(archive_skill))))
    /\ outcome' = Some(compare_skill_directories(Value(local_skill),
                                                 Value(archive_skill)))
    /\ pc' = "sk_compared"
    /\ UNCHANGED << parse_vars, interactive_vars, dialog_vars, tree_vars, compare_vars, resolve_vars, import_vars, local_skill,
                    archive_skill, archive, temp_dir, metadata, archive_agents,
                    comparisons, tree0, first_run >>

SkillCompareNext == CompareSkillDirectories

SpecSkillCompare == SkillCompareInit /\ [][SkillCompareNext]_vars

\* C13: the directory comparator is total: for every incoming directory
\* (with or without a parseable SKILL.md, with readable or unreadable files)
\* and every local directory state (absent, empty, populated)
\* compare_skill_directories returns exactly one of NEW / CHANGED / IDENTICAL
\* and never raises.
C13_DirectoryComparatorIsTotal ==
    pc = "sk_compared" =>
        /\ Value(outcome).kind = "return"
        /\ Value(outcome).value.status \in Statuses

\* The digest mappings E and I of the two directories compared.
DigestsE ==
    LET d == Value(local_skill)
    IN  IF IsNone(d.files) THEN EmptyDir
        ELSE [q \in DOMAIN Value(d.files) |->
                 IF Value(d.files)[q].readable THEN Value(d.files)[q].text ELSE "?"]
DigestsI ==
    LET d == Value(archive_skill)
    IN  [q \in DOMAIN Value(d.files) |->
            IF Value(d.files)[q].readable THEN Value(d.files)[q].text ELSE "?"]

\* C14: for every pair of path-to-digest mappings (existing E, incoming I)
\* the comparator yields added_files = keys(I) \ keys(E), removed_files =
\* keys(E) \ keys(I), modified_files = the common keys whose digests differ;
\* the three sets are pairwise disjoint; status is NEW iff E is empty,
\* IDENTICAL iff E is non-empty and the three sets are empty, CHANGED iff E
\* is non-empty and one of them is not.  A comparison that is returned
\* carries these sets and this status.
C14_DirectoryDiffBySetDifference ==
    pc = "sk_compared" =>
        LET d == Value(skill_diff)
            E == DigestsE
            I == DigestsI
            none == d.added_files \cup d.removed_files \cup d.modified_files = {}
        IN  /\ d.added_files = DOMAIN I \ DOMAIN E
            /\ d.removed_files = DOMAIN E \ DOMAIN I
            /\ d.modified_files = {q \in DOMAIN E \cap DOMAIN I : E[q] # I[q]}
            /\ d.added_files \cap d.removed_files = {}
            /\ d.added_files \cap d.modified_files = {}
            /\ d.removed_files \cap d.modified_files = {}
            /\ d.status = "NEW" <=> DOMAIN E = {}
            /\ d.status = "IDENTICAL" <=> (DOMAIN E # {} /\ none)
            /\ d.status = "CHANGED" <=> (DOMAIN E # {} /\ ~none)
            /\ Value(outcome).kind = "return" =>
                   LET c == Value(outcome).value
                   IN  /\ c.added_files = d.added_files
                       /\ c.removed_files = d.removed_files
                       /\ c.modified_files = d.modified_files
                       /\ c.status = d.status

\* A comparison was returned with a file added, one removed and one
\* modified at once.
C14_Witness ==
    /\ pc = "sk_compared"
    /\ Value(outcome).kind = "return"
    /\ Value(outcome).value.status = "CHANGED"
    /\ Value(outcome).value.added_files # {}
    /\ Value(outcome).value.removed_files # {}
    /\ Value(outcome).value.modified_files # {}

(***************************************************************************)
(* transfer.py: import_agents_and_skills (bulk import) and                 *)
(* import_agents_selective, run from cli.import_cmd.                       *)
(***************************************************************************)

\* str(path.relative_to(directory)) for the components of q after the
\* first `skip` ones.
RECURSIVE RelPath(_, _)
RelPath(q, skip) ==
    IF skip + 1 = Len(q) THEN q[Len(q)]
    ELSE q[skip + 1] \o "/" \o RelPath(q, skip + 1)

\* source.rglob("*.md"): the .md files at any depth under it.
RGlobMd(tree, top) ==
    {q \in DOMAIN tree : Len(q) >= 2 /\ q[1] = top /\ endswith(q[Len(q)], ".md")}

\* [d for d in source.iterdir() if d.is_dir()]: the names of the
\* directories right under a top-level directory.
SubDirs(tree, top) == {q[2] : q \in {r \in DOMAIN tree : Len(r) >= 3 /\ r[1] = top}}

\* The files of the directory top/name, by relative path.
SubTree(tree, top, name) ==
    LET inside == {q \in DOMAIN tree : Len(q) >= 3 /\ q[1] = top /\ q[2] = name}
    IN  [rel_path \in {RelPath(q, 2) : q \in inside} |->
            tree[CHOOSE q \in inside : RelPath(q, 2) = rel_path]]

\* One unit of work of an import run.
AgentItem(scope, path, file) ==
    [kind |-> "agent", scope |-> scope, name |-> path[Len(path)], path |-> path,
     src |-> file]
SkillItem(scope, name, files) ==
    [kind |-> "skill", scope |-> scope, name |-> name, path |-> << >>,
     src |-> files]
\* Entering the project-level part of a run: ./.claude is checked first.
EnterItem(what, count) ==
    [kind |-> "enter", scope |-> "project", name |-> what, path |-> << >>,
     src |-> count]

\* The items a bulk import of the extracted tree goes through, in program
\* order; glob, rglob and iterdir list in any order.
BulkQueues(tree, import_type) ==
    LET agents == import_type # "skills-only"
        skills == import_type \in {"all", "skills-only"}
        ua == IF agents THEN GlobMd(tree, "user-agents") ELSE {}
        pa == IF agents THEN RGlobMd(tree, "project-agents") ELSE {}
        us == IF skills THEN SubDirs(tree, "user-skills") ELSE {}
        ps == IF skills THEN SubDirs(tree, "project-skills") ELSE {}
        Agents(scope, order) ==
            [n \in 1..Len(order) |-> AgentItem(scope, order[n], tree[order[n]])]
        Skills(scope, top, order) ==
            [n \in 1..Len(order) |->
                SkillItem(scope, order[n], SubTree(tree, top, order[n]))]
    IN  {Agents("user", o1)
           \o (IF pa = {} THEN << >>
               ELSE << EnterItem("agents", Cardinality(pa)) >> \o Agents("project", o2))
           \o Skills("user", "user-skills", o3)
           \o (IF ps = {} THEN << >>
               ELSE << EnterItem("skills", Cardinality(ps)) >>
                        \o Skills("project", "project-skills", o4)) :
         o1 \in Orderings(ua), o2 \in Orderings(pa),
         o3 \in Orderings(us), o4 \in Orderings(ps)}

\* The counters of a bulk import and of a selective one.
BulkStats ==
    [imported_count |-> 0, skipped_count |-> 0, conflict_count |-> 0,
     skills_imported |-> 0, skills_skipped |-> 0]
NothingLeftOut(not_selected) ==
    [new_imported |-> 0, changed_imported |-> 0, identical_skipped |-> 0,
     not_selected |-> 0]
SelectiveStats(not_selected) ==
    [new_imported |-> 0, changed_imported |-> 0, identical_skipped |-> 0,
     not_selected |-> not_selected]

\* counter += n
NoBump(counter, n) == stats
Bump(counter, n) == Some([Value(stats) EXCEPT ![counter] = @ + n])

\* What became of an item: whether the target existed, what was done, and
\* the counter it went into ("" for none).
Processed(item, existed, done, counted) ==
    [kind |-> item.kind, scope |-> item.scope, name |-> item.name,
     conflict |-> existed, done |-> done, counted |-> counted]

\* The directory an item of the given scope is imported into.
AgentsDir(scope) == IF scope = "user" THEN home_agents ELSE cwd_agents
SkillsBase(scope) == IF scope = "user" THEN skills_base ELSE cwd_skills

\* The file an agent item's import writes, if it writes one: the target
\* itself without a conflict and on OVERWRITE, the duplicate's name on
\* DUPLICATE, none on KEEP.
WrittenName(item, mode) ==
    LET target_dir == AgentsDir(item.scope)
    IN  IF ~exists(target_dir, item.name) \/ mode = "overwrite"
        THEN Some(item.name)
        ELSE IF mode = "duplicate"
        THEN Some(get_duplicate_name(target_dir, item.name))
        ELSE None

\* Whether writing the file raises PermissionError.
WriteFails(scope, written) ==
    /\ ~IsNone(written)
    /\ << scope, Value(written) >> \in unwritable

\* Lines 79-94 of import_analyzer: the comparison of one archive agent.
CompareOne(agent, home, cwd) ==
    LET local_path == find_local_agent_path(agent.name, agent.agent_type, home, cwd)
        found == IF IsNone(local_path) THEN None
                 ELSE parse_agent_file(Value(local_path),
                                       LocalFile(Value(local_path), home, cwd))
    IN  compare_agents(agent, found, home, cwd)

\* The whole loop, over the agents in the order they were found.
CompareAll(agents, home, cwd) ==
    [n \in 1..Len(agents) |-> CompareOne(agents[n], home, cwd)]

\* Every way of selecting some of the comparisons, order kept.
RECURSIVE Selections(_)
Selections(cs) ==
    IF cs = << >> THEN {<< >>}
    ELSE LET rest == Selections(Tail(cs))
         IN  rest \cup {<< Head(cs) >> \o r : r \in rest}

\* The archives imported: agents at both levels (the project agent under
\* the path export stores it at), a user skill and a project skill.
ImportMemberPaths ==
    {<< "user-agents", "x.md" >>, << "user-agents", "y.md" >>,
     << "project-agents", ".claude", "agents", "x.md" >>,
     << "user-skills", "skill", "SKILL.md" >>,
     << "user-skills", "skill", "run.sh" >>,
     << "project-skills", "skill", "SKILL.md" >>}

ImportMemberFiles(q) ==
    IF q = << "user-agents", "x.md" >>
    THEN {File("a\n"), File("b\n"), NamedFile("other", "---\nname: other\n---\nb\n")}
    ELSE IF q[1] \in {"user-agents", "project-agents"} THEN {File("b\n")}
    ELSE IF q = << "user-skills", "skill", "SKILL.md" >>
    THEN {NamedFile("skill", "---\nname: skill\n---\n"), BadFile("---\n- item\n---\n")}
    ELSE IF q[Len(q)] = "SKILL.md" THEN {NamedFile("skill", "---\nname: skill\n---\n")}
    ELSE {File("x\n"), File("y\n")}

ImportTrees ==
    UNION {{t \in [Q -> UNION {ImportMemberFiles(q) : q \in Q}] :
               \A q \in Q : t[q] \in ImportMemberFiles(q)} :
           Q \in {P \in SUBSET ImportMemberPaths : Cardinality(P) <= MaxArchiveEntries}}

ImportArchives ==
    {[exists |-> FALSE, kind |-> "missing", entries |-> EmptyTree],
     [exists |-> TRUE, kind |-> "not_gzip", entries |-> EmptyTree]}
    \cup {[exists |-> TRUE, kind |-> "valid", entries |-> t] : t \in ImportTrees}

\* The machine imported into: ~/.claude/agents, ./.claude (if there is one)
\* with its agents, ~/.claude/skills and ./.claude/skills, and the files
\* that cannot be written.
LocalSkill ==
    [rel_path \in {"SKILL.md", "lib/util.py"} |->
        IF rel_path = "SKILL.md" THEN File("plain\n") ELSE File("x\n")]
Machine(home, claude, cwd, skills, project_skills, readonly) ==
    [home |-> home, claude |-> claude, cwd |-> cwd, skills |-> skills,
     project_skills |-> project_skills, readonly |-> readonly]
Machines ==
    LET one(f) == [n \in {"x.md"} |-> f]
        skill(t) == [n \in {"skill"} |-> t]
        same == [rel_path \in {"SKILL.md"} |-> NamedFile("skill", "---\nname: skill\n---\n")]
    IN  {Machine(EmptyDir, FALSE, EmptyDir, EmptyDir, EmptyDir, {}),
         Machine(EmptyDir, TRUE, EmptyDir, EmptyDir, EmptyDir, {}),
         Machine(one(File("a\n")), FALSE, EmptyDir, skill(LocalSkill), EmptyDir, {}),
         Machine(one(File("a\n")), TRUE, one(File("a\n")), skill(LocalSkill),
                 skill(same), {}),
         Machine(one(File("a\n")), TRUE, one(File("b\n")), skill(same), EmptyDir,
                 {<< "user", "x.md" >>}),
         Machine(one(BadFile("---\n- a\n---\n")), TRUE, EmptyDir, EmptyDir,
                 skill(same), {}),
         Machine([n \in {"x.md", "x_1.md"} |-> File("a\n")], FALSE, EmptyDir,
                 skill(same), EmptyDir, {<< "user", "x.md" >>})}

\* The calls made: a bulk import (the interactive mode for skills only: an
\* agent conflict in that mode opens the line-by-line merge), or a
\* selective import of some of the agents an analysis of the same archive
\* on the same machine compared.
BulkRequests ==
    {[op |-> "bulk", conflict_mode |-> mode, import_type |-> import_type,
      selected_comparisons |-> << >>, total_in_archive |-> 0] :
        mode \in PolicyModes, import_type \in {"all", "agents-only", "skills-only"}}
    \cup {[op |-> "bulk", conflict_mode |-> "diff", import_type |-> "skills-only",
           selected_comparisons |-> << >>, total_in_archive |-> 0]}

AnalysedBy(a, home, cwd) ==
    IF a.kind # "valid" THEN {<< >>}
    ELSE {CompareAll(user_agents \o project_agents, home, cwd) :
            user_agents \in
                Orderings(_find_agents_in_directory(a.entries, "user-agents", "user")),
            project_agents \in
                Orderings(_find_agents_in_directory(a.entries, "project-agents",
                                                    "project"))}

SelectiveRequests(a, home, cwd) ==
    UNION {{[op |-> "selective", conflict_mode |-> mode,
             import_type |-> "agents-only",
             selected_comparisons |-> selected, total_in_archive |-> Len(cs)] :
               mode \in PolicyModes, selected \in Selections(cs)} :
           cs \in AnalysedBy(a, home, cwd)}

ImportInit ==
    /\ ParseIdle
    /\ InteractiveIdle
    /\ DialogIdle
    /\ pc = "im_start"
    /\ archive \in {Some(a) : a \in ImportArchives}
    /\ \E m \in Machines :
          /\ home_agents = m.home
          /\ cwd_claude = m.claude
          /\ cwd_agents = m.cwd
          /\ skills_base = m.skills
          /\ cwd_skills = m.project_skills
          /\ unwritable = m.readonly
    /\ request \in {Some(r) : r \in BulkRequests
                                     \cup SelectiveRequests(Value(archive),
                                                            home_agents, cwd_agents)}
    /\ tree0 = Some([home |-> home_agents, cwd |-> cwd_agents,
                     skills |-> skills_base, project_skills |-> cwd_skills])
    /\ temp_dir = None
    /\ queue = << >>
    /\ stats = None
    /\ processed = << >>
    /\ prompt = None
    /\ run_summary = None
    /\ cli = None
    /\ outcome = None
    /\ metadata = None
    /\ archive_agents = << >>
    /\ comparisons = << >>
    /\ first_run = None
    /\ conflict = None
    /\ calls = << >>
    /\ CompareIdle
    /\ SkillCompareIdle

\* What no step of an import changes.
import_frame == << parse_vars, interactive_vars, dialog_vars, compare_vars, skillcmp_vars, archive, metadata, archive_agents,
                  comparisons, first_run, tree0, conflict, calls, request,
                  unwritable >>

\* An agent picked for a selective import: Path(agent.file_path).name and
\* the comparison it comes with.
SelectedItem(selected) ==
    [kind |-> "selected", scope |-> selected.agent.agent_type,
     name |-> selected.agent.file_path[Len(selected.agent.file_path)],
     path |-> selected.agent.file_path, src |-> selected]

\* `if result:` on the Optional[Path] resolve_conflict returned.
Truthy(returned) == ~IsNone(returned.value)

\* The agents directory of the item's scope becomes d.
PutAgents(scope, d) ==
    /\ home_agents' = IF scope = "user" THEN d ELSE home_agents
    /\ cwd_agents' = IF scope = "user" THEN cwd_agents ELSE d
\* The skills directory of the item's scope becomes d.
PutSkills(scope, d) ==
    /\ skills_base' = IF scope = "user" THEN d ELSE skills_base
    /\ cwd_skills' = IF scope = "user" THEN cwd_skills ELSE d

\* An exception leaves the function: the `with` block is left on the way,
\* the items not handled yet stay in the queue.
Leave(exc, message) ==
    /\ outcome' = Some(Raised(exc, message))
    /\ temp_dir' = cleanup(temp_dir)
    /\ pc' = "im_left"

\* transfer.py 294-298, 626-630: the archive does not exist.
ImportNotFound ==
    /\ pc = "im_start"
    /\ ~Value(archive).exists
    /\ outcome' = Some(Raised("SystemExit", "1"))
    /\ pc' = "im_left"
    /\ UNCHANGED << import_frame, tree_vars, skills_base, cwd_skills, cwd_claude,
                    temp_dir, queue, stats, processed, prompt, run_summary, cli >>

\* transfer.py 326-327, 636-643: the counters start at zero, the temporary
\* directory is created.
ImportBegin ==
    /\ pc = "im_start"
    /\ Value(archive).exists
    /\ temp_dir' = Some(EmptyTree)
    /\ stats' = IF Value(request).op = "bulk" THEN Some(BulkStats)
                ELSE Some(SelectiveStats(Value(request).total_in_archive
                                         - Len(Value(request).selected_comparisons)))
    /\ pc' = "im_extract"
    /\ UNCHANGED << import_frame, tree_vars, skills_base, cwd_skills, cwd_claude,
                    queue, outcome, processed, prompt, run_summary, cli >>

\* transfer.py 330-331, 646-647: the archive is extracted; what the run
\* will go through is what the extracted tree lists (bulk) or the selected
\* comparisons (selective).
ImportExtract ==
    /\ pc = "im_extract"
    /\ Value(archive).kind = "valid"
    /\ LET extracted == extractall(Value(archive).entries, Value(temp_dir),
                                   home_agents)
       IN  /\ temp_dir' = Some(extracted.temp)
           /\ home_agents' = extracted.home
           /\ IF Value(request).op = "bulk"
              THEN queue' \in BulkQueues(extracted.temp, Value(request).import_type)
              ELSE queue' = [n \in 1..Len(Value(request).selected_comparisons) |->
                               SelectedItem(Value(request).selected_comparisons[n])]
    /\ pc' = "im_loop"
    /\ UNCHANGED << import_frame, cwd_agents, skills_base, cwd_skills, cwd_claude,
                    stats, outcome, processed, prompt, run_summary, cli >>

\* transfer.py 330, 646: tarfile.open raises ReadError on a file that is no
\* gzip stream; nothing here catches it.
ImportExtractFails ==
    /\ pc = "im_extract"
    /\ Value(archive).kind # "valid"
    /\ Leave("ReadError", "not a gzip file")
    /\ UNCHANGED << import_frame, tree_vars, skills_base, cwd_skills, cwd_claude,
                    queue, stats, processed, prompt, run_summary, cli >>

\* transfer.py 357-377 and 401-421: one agent of a bulk import.  The
\* target is the file's name in the agents directory, whatever directory
\* the archive held it in.
ImportAgent ==
    /\ pc = "im_loop"
    /\ queue # << >>
    /\ Head(queue).kind = "agent"
    /\ LET item == Head(queue)
           mode == Value(request).conflict_mode
           target_dir == AgentsDir(item.scope)
       IN  /\ ~WriteFails(item.scope, WrittenName(item, mode))
           /\ IF exists(target_dir, item.name)
              THEN LET resolved == resolve_conflict(item.name, item.src,
                                                    target_dir, mode)
                       counted == IF Truthy(resolved.outcome) THEN "imported_count"
                                  ELSE "skipped_count"
                   IN  /\ PutAgents(item.scope, resolved.directory)
                       /\ stats' = Some([Value(stats) EXCEPT
                                           !.conflict_count = @ + 1,
                                           ![counted] = @ + 1])
                       /\ processed' = Append(processed,
                                              Processed(item, TRUE, mode, counted))
              ELSE /\ PutAgents(item.scope, copy2(item.src, target_dir, item.name))
                   /\ stats' = Bump("imported_count", 1)
                   /\ processed' = Append(processed,
                                          Processed(item, FALSE, "copied",
                                                    "imported_count"))
    /\ queue' = Tail(queue)
    /\ UNCHANGED << pc, import_frame, skills_base, cwd_skills, cwd_claude, temp_dir,
                    outcome, prompt, run_summary, cli >>

\* The same lines when the file cannot be written: shutil.copy2 raises
\* PermissionError, in the loop or inside resolve_conflict, and no
\* try/except stands between the copy and the caller.
ImportAgentFails ==
    /\ pc = "im_loop"
    /\ queue # << >>
    /\ Head(queue).kind = "agent"
    /\ WriteFails(Head(queue).scope,
                  WrittenName(Head(queue), Value(request).conflict_mode))
    /\ Leave("PermissionError", "Permission denied")
    /\ UNCHANGED << import_frame, tree_vars, skills_base, cwd_skills, cwd_claude,
                    queue, stats, processed, prompt, run_summary, cli >>

\* A prompt the run waits at: which one, the target as it was when the
\* item's resolution began, the file-by-file questions still to ask and
\* whether an answer has changed the target yet.
Ask(at, before, todo) ==
    Some([at |-> at, before |-> before, todo |-> todo, changes_made |-> FALSE])

\* transfer.py 388-399 and 477-488: before the project-level items,
\* ./.claude is looked for; with it there the target directory is made,
\* without it the user is asked.
EnterProject ==
    /\ pc = "im_loop"
    /\ queue # << >>
    /\ Head(queue).kind = "enter"
    /\ IF cwd_claude
       THEN /\ queue' = Tail(queue)
            /\ UNCHANGED << pc, prompt >>
       ELSE /\ prompt' = Ask("create_dir", EmptyDir, << >>)
            /\ pc' = "im_prompt"
            /\ UNCHANGED queue
    /\ UNCHANGED << import_frame, tree_vars, skills_base, cwd_skills, cwd_claude,
                    temp_dir, stats, outcome, processed, run_summary, cli >>

\* Confirm.ask("Create .claude/... in current directory?"): yes makes the
\* directory, no counts every project-level item of the kind as skipped
\* and empties their list.
EnterAnswer ==
    /\ pc = "im_prompt"
    /\ Value(prompt).at = "create_dir"
    /\ \E yes \in BOOLEAN :
          IF yes
          THEN /\ cwd_claude' = TRUE
               /\ queue' = Tail(queue)
               /\ UNCHANGED stats
          ELSE /\ stats' = Bump(IF Head(queue).name = "agents" THEN "skipped_count"
                                ELSE "skills_skipped", Head(queue).src)
               /\ queue' = SubSeq(queue, 2 + Head(queue).src, Len(queue))
               /\ UNCHANGED cwd_claude
    /\ prompt' = None
    /\ pc' = "im_loop"
    /\ UNCHANGED << import_frame, tree_vars, skills_base, cwd_skills, temp_dir,
                    outcome, processed, run_summary, cli >>

\* The comparison resolve_skill_conflict opens with, for the skill at the
\* head of the queue against the target as it is or was.
HeadComparison(existing_files) ==
    compare_skill_directories(Dir(Head(queue).name, Some(existing_files)),
                              Dir(Head(queue).name, Some(Head(queue).src)))

\* The skill at the head of the queue is done with: it is counted by what
\* the resolver returned.
SkillDone(existed, done, result) ==
    LET counted == IF result THEN "skills_imported" ELSE "skills_skipped"
    IN  /\ stats' = Bump(counted, 1)
        /\ processed' = Append(processed,
                               Processed(Head(queue), existed, done, counted))
        /\ queue' = Tail(queue)

\* transfer.py 438-458 and 490-510: one skill of a bulk import, copied
\* when the target is free, resolved by the mode's policy when it is not.
ImportSkill ==
    /\ pc = "im_loop"
    /\ queue # << >>
    /\ Head(queue).kind = "skill"
    /\ LET item == Head(queue)
           mode == Value(request).conflict_mode
           target_base == SkillsBase(item.scope)
       IN  IF exists(target_base, item.name)
           THEN /\ mode \in PolicyModes
                /\ LET resolved == resolve_skill_conflict(
                                       item.name, Dir(item.name, Some(item.src)),
                                       target_base, mode)
                   IN  /\ resolved.outcome.kind = "return"
                       /\ PutSkills(item.scope, resolved.directory)
                       /\ SkillDone(TRUE, mode, resolved.outcome.value)
           ELSE /\ PutSkills(item.scope, copy2(item.src, target_base, item.name))
                /\ SkillDone(FALSE, "copied", TRUE)
    /\ UNCHANGED << pc, import_frame, tree_vars, cwd_claude, temp_dir, outcome,
                    prompt, run_summary, cli >>

\* skill_conflict_resolver.py 285 and 98-100: the comparison raises
\* ValueError, in every mode, and the import does not catch it.
ImportSkillRaises ==
    /\ pc = "im_loop"
    /\ queue # << >>
    /\ Head(queue).kind = "skill"
    /\ exists(SkillsBase(Head(queue).scope), Head(queue).name)
    /\ LET compared == HeadComparison(SkillsBase(Head(queue).scope)[Head(queue).name])
       IN  /\ compared.kind = "raise"
           /\ Leave(compared.exc, compared.message)
    /\ UNCHANGED << import_frame, tree_vars, skills_base, cwd_skills, cwd_claude,
                    queue, stats, processed, prompt, run_summary, cli >>

\* skill_conflict_resolver.py 344-358: in the interactive mode the user is
\* shown the options and asked for a choice.
SkillAsk ==
    /\ pc = "im_loop"
    /\ queue # << >>
    /\ Head(queue).kind = "skill"
    /\ Value(request).conflict_mode = "diff"
    /\ exists(SkillsBase(Head(queue).scope), Head(queue).name)
    /\ HeadComparison(SkillsBase(Head(queue).scope)[Head(queue).name]).kind = "return"
    /\ prompt' = Ask("skill_choice",
                     SkillsBase(Head(queue).scope)[Head(queue).name], << >>)
    /\ pc' = "im_prompt"
    /\ UNCHANGED << import_frame, tree_vars, skills_base, cwd_skills, cwd_claude,
                    temp_dir, queue, stats, outcome, processed, run_summary, cli >>

\* sorted(paths): the relative paths of the skills modelled, in the order
\* of their code points.
PathOrder == << "SKILL.md", "a[/b].py", "lib/util.py", "run.sh" >>
sorted(paths) == SelectSeq(PathOrder, LAMBDA rel_path : rel_path \in paths)

\* The questions file_by_file_merge asks, in its order: the added files,
\* the modified ones, the removed ones.
MergeQuestions(compared) ==
    LET Tag(what, order) == [n \in 1..Len(order) |-> << what, order[n] >>]
    IN  Tag("added", sorted(compared.added_files))
          \o Tag("modified", sorted(compared.modified_files))
          \o Tag("removed", sorted(compared.removed_files))

\* The policy a choice of the interactive resolver stands for.
ChoiceMode(choice) ==
    CASE choice = "o" -> "overwrite" [] choice = "k" -> "keep"
      [] choice = "d" -> "duplicate"

\* skill_conflict_resolver.py 354-391: the answer to the choice prompt.
\* o, k and d do what the policies do; v and t show the changes and ask
\* again; f starts the file-by-file merge.
SkillChoice ==
    /\ pc = "im_prompt"
    /\ Value(prompt).at = "skill_choice"
    /\ LET item == Head(queue)
           target_base == SkillsBase(item.scope)
       IN  \E choice \in {"o", "k", "d", "v", "t", "f"} :
              CASE choice \in {"o", "k", "d"} ->
                       LET resolved == resolve_skill_conflict(
                                           item.name, Dir(item.name, Some(item.src)),
                                           target_base, ChoiceMode(choice))
                       IN  /\ PutSkills(item.scope, resolved.directory)
                           /\ SkillDone(TRUE, choice, resolved.outcome.value)
                           /\ prompt' = None
                           /\ pc' = "im_loop"
                [] choice \in {"v", "t"} ->
                       UNCHANGED << pc, skills_base, cwd_skills, stats, processed,
                                    queue, prompt >>
                [] choice = "f" ->
                       /\ prompt' = Ask("merge", Value(prompt).before,
                                        MergeQuestions(
                                            HeadComparison(Value(prompt).before).value))
                       /\ UNCHANGED << pc, skills_base, cwd_skills, stats, processed,
                                       queue >>
    /\ UNCHANGED << import_frame, tree_vars, cwd_claude, temp_dir, outcome,
                    run_summary, cli >>

\* What an answer of the file-by-file merge does to the files of the
\* target: copy2 of the incoming file, unlink, or nothing.
Merged(files, incoming_files, question, answer) ==
    LET rel_path == question[2]
    IN  IF question[1] \in {"added", "modified"} /\ answer \in {"y", "r"}
        THEN [f \in DOMAIN files \cup {rel_path} |->
                 IF f = rel_path THEN incoming_files[rel_path] ELSE files[f]]
        ELSE IF question[1] = "removed" /\ answer = "y"
        THEN [f \in DOMAIN files \ {rel_path} |-> files[f]]
        ELSE files

\* skill_conflict_resolver.py 420-462: one question of the file-by-file
\* merge; the answer is carried out before the next question is asked.
MergeFile ==
    /\ pc = "im_prompt"
    /\ Value(prompt).at = "merge"
    /\ Value(prompt).todo # << >>
    /\ LET item == Head(queue)
           target_base == SkillsBase(item.scope)
           question == Head(Value(prompt).todo)
       IN  \E answer \in IF question[1] = "modified" THEN {"k", "r", "s"}
                         ELSE {"y", "n"} :
              LET files == Merged(target_base[item.name], item.src, question, answer)
              IN  /\ PutSkills(item.scope, copy2(files, target_base, item.name))
                  /\ prompt' = Some([Value(prompt) EXCEPT
                                       !.todo = Tail(@),
                                       !.changes_made = @ \/ answer \in {"y", "r"}])
    /\ UNCHANGED << pc, import_frame, tree_vars, cwd_claude, temp_dir, queue, stats,
                    outcome, processed, run_summary, cli >>

\* skill_conflict_resolver.py 465-471: the questions are over;
\* file_by_file_merge returns changes_made.
MergeDone ==
    /\ pc = "im_prompt"
    /\ Value(prompt).at = "merge"
    /\ Value(prompt).todo = << >>
    /\ SkillDone(TRUE, "f", Value(prompt).changes_made)
    /\ prompt' = None
    /\ pc' = "im_loop"
    /\ UNCHANGED << import_frame, tree_vars, skills_base, cwd_skills, cwd_claude,
                    temp_dir, outcome, run_summary, cli >>

\* Ctrl-C at a prompt: Prompt.ask and Confirm.ask raise KeyboardInterrupt,
\* which nothing catches before cli.import_cmd.
Interrupt ==
    /\ pc = "im_prompt"
    /\ Leave("KeyboardInterrupt", "")
    /\ UNCHANGED << import_frame, tree_vars, skills_base, cwd_skills, cwd_claude,
                    queue, stats, processed, prompt, run_summary, cli >>

\* The file a selected agent's import writes, if it writes one.
SelectedWrittenName(item, mode) ==
    IF item.src.status = "NEW" \/ (item.src.status = "CHANGED" /\ mode = "overwrite")
    THEN Some(item.name)
    ELSE IF item.src.status = "CHANGED" /\ mode = "duplicate"
    THEN Some(get_duplicate_name(AgentsDir(item.scope), item.name))
    ELSE None

\* for md_file in source_dir.rglob("*.md"): if md_file.name == filename
SourcesNamed(tree, item) ==
    {q \in RGlobMd(tree, IF item.scope = "user" THEN "user-agents"
                         ELSE "project-agents") : q[Len(q)] = item.name}

\* transfer.py 688-708: the branch `if comparison.status == ...` takes.
IdenticalAsChanged(status) == IF status = "IDENTICAL" THEN "CHANGED" ELSE status
StatusBranch(status) == status

\* transfer.py 660-711: one selected agent.  NEW is copied to the target
\* path straight away, CHANGED goes through resolve_conflict, IDENTICAL is
\* skipped; an agent whose file is not in the archive is passed over.
SelectiveItem ==
    /\ pc = "im_loop"
    /\ queue # << >>
    /\ Head(queue).kind = "selected"
    /\ LET item == Head(queue)
           mode == Value(request).conflict_mode
           target_dir == AgentsDir(item.scope)
           status == StatusBranch(item.src.status)
           found == SourcesNamed(Value(temp_dir), item)
       IN  IF found = {}
           THEN /\ processed' = Append(processed,
                                       Processed(item, FALSE, "not_found", ""))
                /\ UNCHANGED << tree_vars, cwd_claude, stats >>
           ELSE /\ ~WriteFails(item.scope, SelectedWrittenName(item, mode))
                /\ cwd_claude' = (cwd_claude \/ item.scope = "project")
                /\ \E source_path \in found :
                      LET source == Value(temp_dir)[source_path]
                          existed == exists(target_dir, item.name)
                      IN  CASE status = "NEW" ->
                                   /\ PutAgents(item.scope,
                                                copy2(source, target_dir, item.name))
                                   /\ stats' = Bump("new_imported", 1)
                                   /\ processed' = Append(processed,
                                          Processed(item, existed, "copied",
                                                    "new_imported"))
                            [] status = "CHANGED" ->
                                   LET resolved == resolve_conflict(
                                           item.name, source, target_dir, mode)
                                       counted == IF Truthy(resolved.outcome)
                                                  THEN "changed_imported" ELSE ""
                                   IN  /\ PutAgents(item.scope, resolved.directory)
                                       /\ stats' = IF counted = "" THEN stats
                                                   ELSE Bump(counted, 1)
                                       /\ processed' = Append(processed,
                                              Processed(item, existed, mode, counted))
                            [] status = "IDENTICAL" ->
                                   /\ stats' = Bump("identical_skipped", 1)
                                   /\ processed' = Append(processed,
                                          Processed(item, existed, "skipped",
                                                    "identical_skipped"))
                                   /\ UNCHANGED tree_vars
    /\ queue' = Tail(queue)
    /\ UNCHANGED << pc, import_frame, skills_base, cwd_skills, temp_dir, outcome,
                    prompt, run_summary, cli >>

\* The same lines when the file cannot be written: PermissionError leaves
\* the loop and the function.
SelectiveItemFails ==
    /\ pc = "im_loop"
    /\ queue # << >>
    /\ Head(queue).kind = "selected"
    /\ SourcesNamed(Value(temp_dir), Head(queue)) # {}
    /\ WriteFails(Head(queue).scope,
                  SelectedWrittenName(Head(queue), Value(request).conflict_mode))
    /\ Leave("PermissionError", "Permission denied")
    /\ UNCHANGED << import_frame, tree_vars, skills_base, cwd_skills, cwd_claude,
                    queue, stats, processed, prompt, run_summary, cli >>

\* transfer.py 523-543 and 713-735: every item has been handled; the
\* `with` block is left, the summary panel is printed, the function
\* returns (None from the bulk import, the statistics from the selective).
ImportFinish ==
    /\ pc = "im_loop"
    /\ queue = << >>
    /\ temp_dir' = cleanup(temp_dir)
    /\ run_summary' = Some([title |-> IF Value(request).op = "bulk" THEN "Summary"
                                      ELSE "Import Complete",
                            counts |-> Value(stats)])
    /\ outcome' = Some(Returned(IF Value(request).op = "bulk" THEN None ELSE stats))
    /\ pc' = "im_left"
    /\ UNCHANGED << import_frame, tree_vars, skills_base, cwd_skills, cwd_claude,
                    queue, stats, processed, prompt, cli >>

\* cli.py 203-209: how import_cmd ends for what the import returned or
\* raised.  KeyboardInterrupt becomes "Import cancelled" and exit status
\* 1, an Exception becomes "Error: ..." and exit status 1, SystemExit is
\* neither and ends the process with its own status.
import_cmd_exit(result) ==
    IF result.kind = "return" THEN [code |-> 0, message |-> ""]
    ELSE IF result.exc = "KeyboardInterrupt"
    THEN [code |-> 1, message |-> "Import cancelled"]
    ELSE IF result.exc = "SystemExit" THEN [code |-> 1, message |-> ""]
    ELSE [code |-> 1, message |-> "Error: " \o result.message]

\* The command ends.
CliExit ==
    /\ pc = "im_left"
    /\ cli' = Some(import_cmd_exit(Value(outcome)))
    /\ pc' = "done"
    /\ UNCHANGED << import_frame, tree_vars, skills_base, cwd_skills, cwd_claude,
                    temp_dir, queue, stats, outcome, processed, prompt, run_summary >>

ImportNext ==
    \/ ImportNotFound
    \/ ImportBegin
    \/ ImportExtract
    \/ ImportExtractFails
    \/ ImportAgent
    \/ ImportAgentFails
    \/ EnterProject
    \/ EnterAnswer
    \/ ImportSkill
    \/ ImportSkillRaises
    \/ SkillAsk
    \/ SkillChoice
    \/ MergeFile
    \/ MergeDone
    \/ Interrupt
    \/ SelectiveItem
    \/ SelectiveItemFails
    \/ ImportFinish
    \/ CliExit

SpecImport == ImportInit /\ [][ImportNext]_vars

(***************************************************************************)
(* Claims about an import run.                                             *)
(***************************************************************************)
Bulk == ~IsNone(request) /\ Value(request).op = "bulk"
Selective == ~IsNone(request) /\ Value(request).op = "selective"

\* The items of a bulk import that met an existing target and were
\* resolved by the KEEP policy.
KeptItems(what) ==
    {n \in 1..Len(processed) :
        /\ processed[n].kind = what
        /\ processed[n].conflict
        /\ processed[n].done = "keep"}

\* A conflicting skill kept by the directory resolver is counted as
\* skipped.
KeptSkillCountedAsSkipped ==
    Bulk => \A n \in KeptItems("skill") : processed[n].counted = "skills_skipped"

\* C12: in a bulk import every conflicting agent resolved with mode KEEP is
\* counted in the skipped count and not in the imported count, as a kept
\* skill is.
C12_KeptAgentCountedAsSkipped ==
    Bulk => \A n \in KeptItems("agent") : processed[n].counted = "skipped_count"

\* A copy of the run raised PermissionError.
WriteFailed ==
    /\ ~IsNone(outcome)
    /\ Value(outcome).kind = "raise"
    /\ Value(outcome).exc = "PermissionError"

\* How many items of the run have not been handled.
ItemsLeft == Len(queue)

\* C16: when writing item K fails, the failure is counted as a skipped item,
\* the items after K are still processed and the end-of-run summary is
\* still emitted, in the bulk and in the selective import.
C16_WriteFailureSkipsItemAndRunGoesOn ==
    (pc = "done" /\ WriteFailed) =>
        /\ ItemsLeft = 0
        /\ ~IsNone(run_summary)
        /\ \E n \in 1..Len(processed) :
              processed[n].counted \in {"skipped_count", "skills_skipped"}

\* The same for each kind of run.
BulkWriteFailureGoesOn ==
    (Bulk /\ pc = "done" /\ WriteFailed) => (ItemsLeft = 0 /\ ~IsNone(run_summary))
SelectiveWriteFailureGoesOn ==
    (Selective /\ pc = "done" /\ WriteFailed) => (ItemsLeft = 0 /\ ~IsNone(run_summary))

\* Every agent file that was there before the run is there with the
\* content it had.
ExistingAgentsIntact ==
    /\ \A n \in DOMAIN Value(tree0).home :
          n \in DOMAIN home_agents /\ home_agents[n] = Value(tree0).home[n]
    /\ \A n \in DOMAIN Value(tree0).cwd :
          n \in DOMAIN cwd_agents /\ cwd_agents[n] = Value(tree0).cwd[n]

KeepOrDuplicate == Value(request).conflict_mode \in {"keep", "duplicate"}

\* A bulk import under KEEP or DUPLICATE replaces no existing agent file.
BulkKeepsExistingContent == (Bulk /\ KeepOrDuplicate) => ExistingAgentsIntact

\* C11: in every bulk or selective import whose conflict mode is KEEP or
\* DUPLICATE, every file that existed in the local agent tree before the
\* run has the same content after it, also when the local file did not
\* parse during analysis or the incoming agent's frontmatter name differs
\* from its file name.
C11_KeepAndDuplicateLeaveExistingContent ==
    ((Bulk \/ Selective) /\ KeepOrDuplicate) => ExistingAgentsIntact

\* The run was interrupted at a prompt and the command has ended.
Cancelled ==
    /\ pc = "done"
    /\ ~IsNone(outcome)
    /\ Value(outcome).kind = "raise"
    /\ Value(outcome).exc = "KeyboardInterrupt"

\* The interrupt came while the skill at the head of the queue was being
\* resolved.
CancelledAtSkill == Cancelled /\ Value(prompt).at \in {"skill_choice", "merge"}

\* An interrupt ends the command with the message "Import cancelled" and a
\* non-zero exit status.
InterruptEndsCancelled ==
    Cancelled => (Value(cli).message = "Import cancelled" /\ Value(cli).code # 0)

\* The skills the run had not come to are as they were before it.
LaterSkillsUntouched ==
    \A n \in 2..Len(queue) :
        queue[n].kind = "skill" =>
            LET base0 == IF queue[n].scope = "user" THEN Value(tree0).skills
                         ELSE Value(tree0).project_skills
                base == SkillsBase(queue[n].scope)
            IN  IF exists(base0, queue[n].name)
                THEN exists(base, queue[n].name)
                       /\ base[queue[n].name] = base0[queue[n].name]
                ELSE ~exists(base, queue[n].name)

\* An interrupt at the choice prompt leaves the item as it was.
InterruptAtChoiceLeavesItem ==
    (Cancelled /\ Value(prompt).at = "skill_choice") =>
        SkillsBase(Head(queue).scope)[Head(queue).name] = Value(prompt).before

\* C17: an interrupt at any prompt while item K is being resolved ends the
\* run in the cancelled outcome (message, non-zero exit), leaves item K's
\* existing content unchanged and touches no item after K.
C17_InterruptLeavesItemUnchanged ==
    /\ InterruptEndsCancelled
    /\ CancelledAtSkill =>
          /\ SkillsBase(Head(queue).scope)[Head(queue).name] = Value(prompt).before
          /\ LaterSkillsUntouched

(***************************************************************************)
(* transfer.py: export_agents_and_skills, called with the agents and       *)
(* skills already selected.                                                *)
(***************************************************************************)

\* metadata.txt as export writes it (the lines that count what was
\* selected).
ExportMetadata(user_agents, project_agents, user_skills, project_skills) ==
    File("User Agents: " \o ToString(user_agents)
           \o "\nProject Agents: " \o ToString(project_agents)
           \o "\nUser Skills: " \o ToString(user_skills)
           \o "\nProject Skills: " \o ToString(project_skills) \o "\n")

\* The path an exported agent is stored at: user agents by file name,
\* project agents under their path relative to the working directory.
ExportedAgentPath(scope, name) ==
    IF scope = "user" THEN << "user-agents", name >>
    ELSE << "project-agents", ".claude", "agents", name >>

\* The paths the files of an exported skill are stored at; the relative
\* path inside the skill is kept as the last component.
ExportedSkillPath(scope, name, rel_path) ==
    IF scope = "user" THEN << "user-skills", name, rel_path >>
    ELSE << "project-skills", ".claude", "skills", name, rel_path >>

\* The selections export is called with: some of the agents and skills on
\* the machine, in any order, and possibly an agent and a skill that have
\* been removed since they were selected.
ExportSelections(m) ==
    LET agents == {AgentItem("user", << n >>, m.home[n]) : n \in DOMAIN m.home}
                    \cup {AgentItem("project", << n >>, m.cwd[n]) : n \in DOMAIN m.cwd}
        gone == AgentItem("user", << "gone.md" >>, File("a\n"))
        skills == {SkillItem("user", n, m.skills[n]) : n \in DOMAIN m.skills}
                    \cup {SkillItem("project", n, m.project_skills[n]) :
                             n \in DOMAIN m.project_skills}
        gone_skill == SkillItem("user", "gone",
                                [rel_path \in {"SKILL.md"} |-> File("plain\n")])
    IN  UNION {{[selected_agents |-> a, selected_skills |-> k] :
                   a \in Orderings(A), k \in Orderings(K)} :
               A \in SUBSET (agents \cup {gone}),
               K \in SUBSET (skills \cup {gone_skill})}

ExportRequests(m) ==
    {[op |-> "export", export_type |-> export_type,
      selected_agents |-> IF export_type = "skills-only" THEN << >>
                          ELSE sel.selected_agents,
      selected_skills |-> IF export_type = "agents-only" THEN << >>
                          ELSE sel.selected_skills,
      output_writable |-> writable] :
        export_type \in {"all", "agents-only", "skills-only"},
        sel \in ExportSelections(m), writable \in BOOLEAN}

ExportInit ==
    /\ ParseIdle
    /\ InteractiveIdle
    /\ DialogIdle
    /\ pc = "ex_start"
    /\ \E m \in Machines :
          /\ home_agents = m.home
          /\ cwd_claude = m.claude
          /\ cwd_agents = m.cwd
          /\ skills_base = m.skills
          /\ cwd_skills = m.project_skills
          /\ unwritable = m.readonly
          /\ request \in {Some(r) : r \in ExportRequests(m)}
    /\ tree0 = Some([home |-> home_agents, cwd |-> cwd_agents,
                     skills |-> skills_base, project_skills |-> cwd_skills])
    /\ archive = None
    /\ temp_dir = None
    /\ queue = << >>
    /\ stats = None
    /\ processed = << >>
    /\ prompt = None
    /\ run_summary = None
    /\ cli = None
    /\ outcome = None
    /\ metadata = None
    /\ archive_agents = << >>
    /\ comparisons = << >>
    /\ first_run = None
    /\ conflict = None
    /\ calls = << >>
    /\ CompareIdle
    /\ SkillCompareIdle

\* What no step of an export changes.
export_frame == << parse_vars, interactive_vars, dialog_vars, compare_vars, skillcmp_vars, tree_vars, skills_base, cwd_skills,
                  cwd_claude, metadata, archive_agents, comparisons, first_run,
                  tree0, conflict, calls, request, unwritable, processed,
                  prompt, run_summary, cli >>

\* transfer.py 162-163: the skills copied so far, by level.
SkillCounts(user_skill_count, project_skill_count) ==
    [user_skill_count |-> user_skill_count,
     project_skill_count |-> project_skill_count]

\* transfer.py 173, 181, 186: the counter of the skill's level goes up.
CountSkill(counts, scope) ==
    IF scope = "user" THEN [counts EXCEPT !.user_skill_count = @ + 1]
    ELSE [counts EXCEPT !.project_skill_count = @ + 1]

\* transfer.py 203-204: sum(1 for a in selected_agents if a.agent_type == ...)
CountSelected(selected_agents, agent_type) ==
    Cardinality({n \in 1..Len(selected_agents) :
                    selected_agents[n].scope = agent_type})

\* transfer.py 119-135: the temporary directory is created, the agents and
\* skills to copy are the selected ones.
ExportBegin ==
    /\ pc = "ex_start"
    /\ temp_dir' = Some(EmptyTree)
    /\ queue' = Value(request).selected_agents \o Value(request).selected_skills
    /\ stats' = Some(SkillCounts(0, 0))
    /\ pc' = "ex_copy"
    /\ UNCHANGED << export_frame, archive, outcome >>

\* A tree with one more file.
WithFile(tree, path, file) ==
    [q \in DOMAIN tree \cup {path} |-> IF q = path THEN file ELSE tree[q]]

\* A tree with the files of a directory added under the paths given for
\* them.
WithSkill(tree, scope, name, files) ==
    LET added == {ExportedSkillPath(scope, name, rel_path) : rel_path \in DOMAIN files}
    IN  [q \in DOMAIN tree \cup added |->
            IF q \in added THEN files[q[Len(q)]] ELSE tree[q]]

\* transfer.py 138-154: one selected agent is copied into the temporary
\* directory; an agent whose file is gone is passed over.
ExportAgent ==
    /\ pc = "ex_copy"
    /\ queue # << >>
    /\ Head(queue).kind = "agent"
    /\ LET item == Head(queue)
       IN  temp_dir' = IF exists(AgentsDir(item.scope), item.name)
                       THEN Some(WithFile(Value(temp_dir),
                                          ExportedAgentPath(item.scope, item.name),
                                          AgentsDir(item.scope)[item.name]))
                       ELSE temp_dir
    /\ queue' = Tail(queue)
    /\ UNCHANGED << pc, export_frame, archive, outcome, stats >>

\* transfer.py 166-187: one selected skill directory is copied (none of
\* the files modelled matches an ignore pattern).
ExportSkill ==
    /\ pc = "ex_copy"
    /\ queue # << >>
    /\ Head(queue).kind = "skill"
    /\ LET item == Head(queue)
       IN  IF exists(SkillsBase(item.scope), item.name)
           THEN /\ temp_dir' = Some(WithSkill(Value(temp_dir), item.scope, item.name,
                                              SkillsBase(item.scope)[item.name]))
                /\ stats' = Some(CountSkill(Value(stats), item.scope))
           ELSE UNCHANGED << temp_dir, stats >>
    /\ queue' = Tail(queue)
    /\ UNCHANGED << pc, export_frame, archive, outcome >>

\* transfer.py 189-251: metadata.txt is written, the temporary directory
\* is packed into the output file, the `with` block is left and the
\* output file's name returned.
ExportArchive ==
    /\ pc = "ex_copy"
    /\ queue = << >>
    /\ Value(request).output_writable
    /\ LET r == Value(request)
           packed == WithFile(Value(temp_dir), << "metadata.txt" >>,
                              ExportMetadata(CountSelected(r.selected_agents, "user"),
                                             CountSelected(r.selected_agents, "project"),
                                             Value(stats).user_skill_count,
                                             Value(stats).project_skill_count))
       IN  archive' = Some([exists |-> TRUE, kind |-> "valid", entries |-> packed])
    /\ temp_dir' = cleanup(temp_dir)
    /\ outcome' = Some(Returned("archive.tar.gz"))
    /\ pc' = "done"
    /\ UNCHANGED << export_frame, queue, stats >>

\* transfer.py 223: the output file cannot be created; the exception
\* leaves the function through the `with` block.
ExportArchiveFails ==
    /\ pc = "ex_copy"
    /\ queue = << >>
    /\ ~Value(request).output_writable
    /\ temp_dir' = cleanup(temp_dir)
    /\ outcome' = Some(Raised("PermissionError", "Permission denied"))
    /\ pc' = "done"
    /\ UNCHANGED << export_frame, queue, archive, stats >>

ExportNext ==
    \/ ExportBegin
    \/ ExportAgent
    \/ ExportSkill
    \/ ExportArchive
    \/ ExportArchiveFails

(***************************************************************************)
(* Every operation that extracts or builds an archive, interrupted at any  *)
(* step or not.                                                            *)
(***************************************************************************)

\* SIGINT while an operation is inside its `with` block: KeyboardInterrupt
\* is raised at whatever statement runs and leaves the function.
Signal ==
    /\ ~IsNone(temp_dir)
    /\ temp_dir' = cleanup(temp_dir)
    /\ outcome' = Some(Raised("KeyboardInterrupt", ""))
    /\ pc' = "done"
    /\ UNCHANGED << parse_vars, interactive_vars, dialog_vars, compare_vars, skillcmp_vars, tree_vars, resolve_vars, archive,
                    metadata, archive_agents, comparisons, first_run, tree0,
                    request, queue, stats, cwd_skills, cwd_claude, processed,
                    unwritable, prompt, run_summary, cli >>

OperationsInit == AnalyzeInit \/ ImportInit \/ ExportInit

OperationsNext ==
    \/ AnalyzeNext
    \/ ImportNext
    \/ ExportNext
    \/ Signal

SpecOperations == OperationsInit /\ [][OperationsNext]_vars

\* The temporary directory exists only while an operation is between
\* creating it and leaving its `with` block.
InsideWith == {"an_extract", "an_find", "an_compare", "im_extract", "im_loop",
               "im_prompt", "ex_copy"}

CorruptedArchiveError ==
    Raised("RuntimeError", "Failed to extract archive. File may be corrupted.")

\* The file handed to the import exists and is no valid compressed archive.
InvalidArchiveImported ==
    /\ Bulk \/ Selective
    /\ Value(archive).exists
    /\ Value(archive).kind # "valid"

\* An import of an invalid archive writes nothing to the local tree.
InvalidArchiveLeavesTree ==
    InvalidArchiveImported =>
        /\ home_agents = Value(tree0).home
        /\ cwd_agents = Value(tree0).cwd
        /\ skills_base = Value(tree0).skills
        /\ cwd_skills = Value(tree0).project_skills

\* C21: the bulk and the selective import fail on a file that is no valid
\* compressed archive with the corrupted-archive error analysis gives, not
\* with a raw library exception, and leave the local tree unchanged.
C21_ImportReportsCorruptedArchive ==
    (InvalidArchiveImported /\ ~IsNone(outcome)) =>
        /\ Value(outcome) = CorruptedArchiveError
        /\ InvalidArchiveLeavesTree

(***************************************************************************)
(* utils/parser.py and utils/skill_parser.py: the metadata parsers, on     *)
(* the text of a file.  (The File records above carry what these parsers   *)
(* make of a file: whether it parses and the name its frontmatter gives.)  *)
(***************************************************************************)

\* The values a YAML document decodes to, as far as the parsers look at
\* them: a string, null, a list of strings, an integer.
YStr(s) == [type |-> "str", str |-> s, items |-> << >>]
YNull == [type |-> "null", str |-> "", items |-> << >>]
YList(items) == [type |-> "list", str |-> "", items |-> items]
YInt(digits) == [type |-> "int", str |-> digits, items |-> << >>]

\* What a whole frontmatter block decodes to: a mapping, or something else.
YMap(map) == [kind |-> "map", map |-> map]
YOther(kind) == [kind |-> kind, map |-> [k \in {} |-> YNull]]

\* A mapping with one key.
OneKey(key, value) == [k \in {key} |-> value]

\* yaml.safe_load on the frontmatter blocks modelled; "error" stands for
\* yaml.YAMLError.
safe_load(yaml_content) ==
    CASE yaml_content = "" -> YOther("null")
      [] yaml_content = "name: x" -> YMap(OneKey("name", YStr("x")))
      [] yaml_content = "name:" -> YMap(OneKey("name", YNull))
      [] yaml_content = "name: ''" -> YMap(OneKey("name", YStr("")))
      [] yaml_content = "description: d" -> YMap(OneKey("description", YStr("d")))
      [] yaml_content = "description: ''" -> YMap(OneKey("description", YStr("")))
      [] yaml_content = "tools: a, b ,," -> YMap(OneKey("tools", YStr("a, b ,,")))
      [] yaml_content = "tools: [' a', '', b]" ->
             YMap(OneKey("tools", YList(<< " a", "", "b" >>)))
      [] yaml_content = "tools: [a, b]" -> YMap(OneKey("tools", YList(<< "a", "b" >>)))
      [] yaml_content = "tools: 3" -> YMap(OneKey("tools", YInt("3")))
      [] yaml_content = "tools:" -> YMap(OneKey("tools", YNull))
      [] yaml_content = "allowed-tools: a, b ,," ->
             YMap(OneKey("allowed-tools", YStr("a, b ,,")))
      [] yaml_content = "allowed-tools: [' a', '', b]" ->
             YMap(OneKey("allowed-tools", YList(<< " a", "", "b" >>)))
      [] yaml_content = "allowed-tools: 3" -> YMap(OneKey("allowed-tools", YInt("3")))
      [] yaml_content = "- item" -> YOther("list")
      [] yaml_content = "text" -> YOther("scalar")
      [] yaml_content = "a: [" -> YOther("error")

\* The characters the regular expression's \s matches, among those used.
IsSpace(c) == c \in {" ", "\n", "\t", "\r"}

\* re.match(r'^---\s*\n(.*?)\n---\s*\n(.*)$', content, re.DOTALL): None,
\* or the two groups.  \s* is greedy (the line break matched after it is
\* the last one that lets the rest match), (.*?) is lazy (the closing line
\* is the first one that fits), (.*) takes the rest.
FrontmatterMatch(content) ==
    LET n == Len(content)
        Blank(from, to) == \A m \in from..to : IsSpace(CharAt(content, m))
        Openings == {i \in 4..n : CharAt(content, i) = "\n" /\ Blank(4, i - 1)}
        Ends(j) == {k \in (j + 4)..n :
                       CharAt(content, k) = "\n" /\ Blank(j + 4, k - 1)}
        Closings(i) == {j \in (i + 1)..n :
                           /\ CharAt(content, j) = "\n"
                           /\ j + 3 <= n
                           /\ SubSeq(content, j + 1, j + 3) = "---"
                           /\ Ends(j) # {}}
        good == {i \in Openings : Closings(i) # {}}
    IN  IF ~startswith(content, "---") \/ good = {} THEN None
        ELSE LET i == Max(good)
                 j == Min(Closings(i))
                 k == Max(Ends(j))
             IN  Some([yaml_content |-> SubSeq(content, i + 1, j - 1),
                       body_content |-> SubSeq(content, k + 1, n)])

\* str.split(sep) for a one-character separator.
RECURSIVE split(_, _)
split(s, sep) ==
    LET at == {i \in 1..Len(s) : CharAt(s, i) = sep}
    IN  IF at = {} THEN << s >>
        ELSE << SubSeq(s, 1, Min(at) - 1) >>
               \o split(SubSeq(s, Min(at) + 1, Len(s)), sep)

\* [t.strip() for t in parts if t.strip()]
RECURSIVE StrippedNonEmpty(_)
StrippedNonEmpty(parts) ==
    IF parts = << >> THEN << >>
    ELSE (IF strip(Head(parts)) = "" THEN << >> ELSE << strip(Head(parts)) >>)
           \o StrippedNonEmpty(Tail(parts))

\* `not value` for a decoded value.
Falsy(value) ==
    \/ value.type = "null"
    \/ value.type = "str" /\ value.str = ""
    \/ value.type = "list" /\ value.items = << >>
    \/ value.type = "int" /\ value.str = "0"

\* metadata.get(key, default)
Get(map, key, default) == IF key \in DOMAIN map THEN map[key] ELSE default

NoDescription == "No description available"

\* Lines 38-46 (parser.py), 59-67 (skill_parser.py): the description.
DescriptionFrom(map, body_content) ==
    LET description == Get(map, "description", YStr(""))
        first_line == split(strip(body_content), "\n")[1]
    IN  IF ~Falsy(description) THEN description
        ELSE IF first_line # "" /\ Len(first_line) < 200 THEN YStr(first_line)
        ELSE YStr(NoDescription)

\* Lines 48-53 (parser.py), 69-79 (skill_parser.py): the tool list.
ToolsFrom(map, key) ==
    LET tools_str == Get(map, key, YStr(""))
    IN  IF tools_str.type = "str"
        THEN YList(StrippedNonEmpty(split(tools_str.str, ",")))
        ELSE IF tools_str.type = "list" THEN tools_str
        ELSE YList(<< >>)

\* models.Agent as parse_agent_file fills it in; tools=None becomes [] in
\* __post_init__.
ParsedAgent(name, description, agent_type, tools, full_content) ==
    [name |-> name, description |-> description, agent_type |-> agent_type,
     tools |-> tools, full_content |-> full_content]

\* `safe_load(...) or {}`, and {} after YAMLError.
MetadataOf(decoded) ==
    IF decoded.kind \in {"null", "error"} THEN YMap([k \in {} |-> YNull])
    ELSE decoded

\* parse_agent_file on a file that was read: Optional[Agent].  A block
\* decoding to a string or a list has no .get: AttributeError, caught by
\* the outer `except Exception`, and None is returned.
ParseAgentContent(stem, content) ==
    LET yaml_match == FrontmatterMatch(content)
    IN  IF IsNone(yaml_match)
        THEN Some(ParsedAgent(YStr(stem), YStr(NoDescription), YStr("unknown"),
                              YList(<< >>), content))
        ELSE LET decoded == MetadataOf(safe_load(Value(yaml_match).yaml_content))
             IN  IF decoded.kind # "map" THEN None
                 ELSE Some(ParsedAgent(
                          Get(decoded.map, "name", YStr(stem)),
                          DescriptionFrom(decoded.map, Value(yaml_match).body_content),
                          Get(decoded.map, "agent_type", YStr("unknown")),
                          ToolsFrom(decoded.map, "tools"),
                          content))

\* parse_skill_md on a file that was read: Optional[dict]; the name falls
\* back to the parent directory's name.
ParseSkillContent(parent_name, content) ==
    LET yaml_match == FrontmatterMatch(content)
    IN  IF IsNone(yaml_match)
        THEN Some(ParsedAgent(YStr(parent_name), YStr(NoDescription), YNull,
                              YList(<< >>), content))
        ELSE LET decoded == MetadataOf(safe_load(Value(yaml_match).yaml_content))
             IN  IF decoded.kind # "map" THEN None
                 ELSE Some(ParsedAgent(
                          Get(decoded.map, "name", YStr(parent_name)),
                          DescriptionFrom(decoded.map, Value(yaml_match).body_content),
                          Get(decoded.map, "agent", YNull),
                          ToolsFrom(decoded.map, "allowed-tools"),
                          content))

(***************************************************************************)
(* The parsers run on one file: SpecParse.                                 *)
(***************************************************************************)
MaxMetaLen == 5     \* characters in a metadata.txt

RECURSIVE Repeat(_, _)
Repeat(c, n) ==
    IF n = 0 THEN ""
    ELSE IF n % 2 = 0 THEN LET half == Repeat(c, n \div 2) IN half \o half
    ELSE c \o Repeat(c, n - 1)

\* The frontmatter blocks of the files parsed.
FrontmatterBlocks ==
    {"", "name: x", "name:", "name: ''", "description: d", "description: ''",
     "tools: a, b ,,", "tools: [' a', '', b]", "tools: [a, b]", "tools: 3",
     "tools:", "allowed-tools: a, b ,,", "allowed-tools: [' a', '', b]",
     "allowed-tools: 3", "- item", "text", "a: ["}

\* The bodies below the frontmatter: empty, a first line, blank lines first,
\* a first line of 199 and of 200 characters.
Bodies ==
    {"", "hello\nmore\n", "\n\nhello\n", Repeat("a", 199) \o "\nx",
     Repeat("a", 200) \o "\nx"}

\* Texts without a (complete) frontmatter block.
PlainTexts == {"", "hello\nmore\n", "---\nname: x\n", "---\n---\nbody"}

MarkdownTexts ==
    {"---\n" \o block \o "\n---\n" \o body : block \in FrontmatterBlocks,
                                            body \in Bodies}
      \cup {"--- \nname: x\n---  \nhello\n"}
      \cup PlainTexts

MetaChars == {"k", ":", " ", "\n"}
RECURSIVE MetaTextsUpTo(_)
MetaTextsUpTo(n) ==
    IF n = 0 THEN {""}
    ELSE LET shorter == MetaTextsUpTo(n - 1)
         IN  shorter \cup {t \o c : t \in {s \in shorter : Len(s) = n - 1},
                                    c \in MetaChars}

\* A file handed to a parser: an agent file <name>.md, the SKILL.md of the
\* directory <name>, or a metadata.txt, which may be missing.
SourceFile(kind, name, present, file) ==
    [kind |-> kind, name |-> name, exists |-> present, file |-> file]

SourceFiles ==
    {SourceFile(kind, "stem", TRUE, File(text)) :
         kind \in {"agent", "skill"}, text \in MarkdownTexts}
      \cup {SourceFile(kind, "stem", TRUE, UnreadableFile("hello\n")) :
               kind \in {"agent", "skill", "metadata"}}
      \cup {SourceFile("metadata", "metadata", TRUE, File(text)) :
               text \in MetaTextsUpTo(MaxMetaLen)}
      \cup {SourceFile("metadata", "metadata", FALSE, UnreadableFile(""))}

ParseInit ==
    /\ pc = "parse_start"
    /\ source_file \in {Some(f) : f \in SourceFiles}
    /\ parsed = None
    /\ InteractiveIdle
    /\ DialogIdle
    /\ home_agents = EmptyDir
    /\ cwd_agents = EmptyDir
    /\ CompareIdle
    /\ AnalysisIdle
    /\ ResolveIdle
    /\ SkillCompareIdle
    /\ ImportIdle

parse_frame == << tree_vars, compare_vars, analysis_vars, resolve_vars,
                 skillcmp_vars, import_vars, interactive_vars, dialog_vars,
                 source_file >>

\* parse_agent_file(file_path): open() failing is caught as well.
ParseAgentFile ==
    /\ pc = "parse_start"
    /\ Value(source_file).kind = "agent"
    /\ parsed' = Some(IF ~Value(source_file).file.readable THEN None
                      ELSE ParseAgentContent(Value(source_file).name,
                                             Value(source_file).file.text))
    /\ pc' = "parsed"
    /\ UNCHANGED parse_frame

\* parse_skill_md(skill_md_path)
ParseSkillMd ==
    /\ pc = "parse_start"
    /\ Value(source_file).kind = "skill"
    /\ parsed' = Some(IF ~Value(source_file).file.readable THEN None
                      ELSE ParseSkillContent(Value(source_file).name,
                                             Value(source_file).file.text))
    /\ pc' = "parsed"
    /\ UNCHANGED parse_frame

\* _parse_metadata_file(metadata_path)
ParseMetadataFile ==
    /\ pc = "parse_start"
    /\ Value(source_file).kind = "metadata"
    /\ parsed' = Some(_parse_metadata_file(Value(source_file).file))
    /\ pc' = "parsed"
    /\ UNCHANGED parse_frame

ParseNext == ParseAgentFile \/ ParseSkillMd \/ ParseMetadataFile

SpecParse == ParseInit /\ [][ParseNext]_vars

\* The states in which a parser has returned for a file that was read.
ParsedText(kind) ==
    /\ pc = "parsed"
    /\ Value(source_file).kind = kind
    /\ Value(source_file).file.readable

Source == Value(source_file).file.text
Result == Value(parsed)

(***************************************************************************)
(* The parsers' results.                                                   *)
(***************************************************************************)

\* The mapping the frontmatter of the source gives: empty without a block
\* and for a block that does not decode to a mapping.
SourceMetadata ==
    LET yaml_match == FrontmatterMatch(Source)
    IN  IF IsNone(yaml_match) THEN [k \in {} |-> YNull]
        ELSE safe_load(Value(yaml_match).yaml_content).map

\* The frontmatter names the item: a name key with a non-empty value.
NameGiven == "name" \in DOMAIN SourceMetadata /\ ~Falsy(SourceMetadata["name"])

AgentReturned == ParsedText("agent") /\ ~IsNone(Result)

NameKeyWithoutValue ==
    /\ AgentReturned
    /\ "name" \in DOMAIN SourceMetadata
    /\ ~NameGiven

\* C22: every Agent parse_agent_file returns has a non-empty name; when the
\* frontmatter has no name key, has one with an empty or null value, or is
\* missing, the name is the stem of the file's name.
C22_ParsedAgentHasNonEmptyName ==
    AgentReturned =>
        /\ Value(Result).name.type = "str"
        /\ Value(Result).name.str # ""
        /\ ~NameGiven => Value(Result).name = YStr(Value(source_file).name)

\* The Agent of a file whose frontmatter is the empty mapping.
AgentOfEmptyMapping(body_content) ==
    ParsedAgent(YStr(Value(source_file).name),
                DescriptionFrom([k \in {} |-> YNull], body_content),
                YStr("unknown"), YList(<< >>), Source)

\* The frontmatter block of the source decodes to something that is not a
\* mapping: a scalar, a list, or nothing for malformed syntax.
BlockNotAMapping ==
    /\ ~IsNone(FrontmatterMatch(Source))
    /\ safe_load(Value(FrontmatterMatch(Source)).yaml_content).kind
          \in {"scalar", "list", "error"}

AgentBlockNotAMapping == ParsedText("agent") /\ BlockNotAMapping

\* C23: parse_agent_file returns an Agent for every text it could read.
\* Without a frontmatter block the Agent carries the whole text, the type
\* "unknown" and nothing from metadata; a block that does not decode to a
\* mapping counts as the empty mapping.
C23_ParseReturnsAgentForEveryText ==
    ParsedText("agent") =>
        /\ ~IsNone(Result)
        /\ IsNone(FrontmatterMatch(Source)) =>
              /\ Value(Result).full_content = Source
              /\ Value(Result).agent_type = YStr("unknown")
              /\ Value(Result).tools = YList(<< >>)
        /\ BlockNotAMapping =>
              Value(Result)
                 = AgentOfEmptyMapping(Value(FrontmatterMatch(Source)).body_content)

\* The body of the source: the text below the frontmatter block, the whole
\* text when there is none.
SourceBody ==
    IF IsNone(FrontmatterMatch(Source)) THEN Source
    ELSE Value(FrontmatterMatch(Source)).body_content

\* The description the frontmatter and the body call for.
ExpectedDescription ==
    LET given == Get(SourceMetadata, "description", YStr(""))
        lines == split(strip(SourceBody), "\n")
    IN  IF ~Falsy(given) THEN given
        ELSE IF lines[1] # "" /\ Len(lines[1]) < 200 THEN YStr(lines[1])
        ELSE YStr(NoDescription)

ItemReturned ==
    /\ pc = "parsed"
    /\ Value(source_file).kind \in {"agent", "skill"}
    /\ Value(source_file).file.readable
    /\ ~IsNone(Result)

PlainTextWithFirstLine ==
    /\ ItemReturned
    /\ IsNone(FrontmatterMatch(Source))
    /\ ExpectedDescription # YStr(NoDescription)

\* C24: for every text, with a frontmatter block or without, the parsed
\* description is the frontmatter's description when that is non-empty,
\* else the first line of the body when it is non-empty and shorter than
\* 200 characters, else "No description available".
C24_DescriptionFallsBackToFirstLine ==
    ItemReturned => Value(Result).description = ExpectedDescription

\* The frontmatter gives the tools as a native list.
NativeToolList ==
    /\ ItemReturned
    /\ \E key \in {"tools", "allowed-tools"} :
          /\ key \in DOMAIN SourceMetadata
          /\ SourceMetadata[key].type = "list"

\* C25: the parsed tool list is a list of trimmed, non-empty strings,
\* whether the frontmatter gives it as a comma-separated string or as a
\* native list; an absent or otherwise typed value gives the empty list.
C25_ToolsAreTrimmedNonEmptyStrings ==
    ItemReturned =>
        /\ Value(Result).tools.type = "list"
        /\ \A i \in DOMAIN Value(Result).tools.items :
              /\ Value(Result).tools.items[i] # ""
              /\ strip(Value(Result).tools.items[i]) = Value(Result).tools.items[i]

\* The lines of the metadata file read, trimmed as the loop trims them.
MetaLines ==
    LET lines == splitlines(Source, TRUE)
    IN  [i \in DOMAIN lines |-> strip(lines[i])]

Colons(line) == {c \in 1..Len(line) : CharAt(line, c) = ":"}
WithColon == {i \in DOMAIN MetaLines : Colons(MetaLines[i]) # {}}

\* The first colon of a line: the one with no colon before it.
FirstColon(line) ==
    CHOOSE c \in Colons(line) : \A d \in Colons(line) : c <= d
KeyOf(line) == strip(SubSeq(line, 1, FirstColon(line) - 1))
ValueOf(line) == strip(SubSeq(line, FirstColon(line) + 1, Len(line)))

MetadataParsed == pc = "parsed" /\ Value(source_file).kind = "metadata"

AtIdenticalItem ==
    /\ Selective
    /\ pc = "im_loop"
    /\ queue # << >>
    /\ Head(queue).src.status = "IDENTICAL"

\* C27: a selected agent whose comparison is IDENTICAL causes no write,
\* whatever the mode: the local tree stays as it is, the agent goes into
\* identical_skipped and into no imported counter, and no resolution is
\* made for it; not_selected is total_in_archive minus the number of
\* selected agents throughout.
C27_IdenticalAgentNeverWritten ==
    [][/\ (AtIdenticalItem /\ queue' = Tail(queue)) =>
             /\ UNCHANGED << home_agents, cwd_agents, skills_base, cwd_skills >>
             /\ stats' = Some([Value(stats) EXCEPT !.identical_skipped = @ + 1])
             /\ processed' = Append(processed,
                    Processed(Head(queue), TRUE, "skipped", "identical_skipped"))
       /\ (Selective /\ ~IsNone(stats')) =>
             Value(stats').not_selected
                = Value(request).total_in_archive
                    - Len(Value(request).selected_comparisons)]_vars

\* A selective import that returned after skipping an IDENTICAL agent,
\* with another agent of the archive left out of the selection.
C27_Witness ==
    /\ Selective
    /\ pc = "done"
    /\ ~IsNone(outcome) /\ Value(outcome).kind = "return"
    /\ \E n \in 1..Len(processed) : processed[n].done = "skipped"
    /\ Value(stats).identical_skipped > 0
    /\ Value(stats).not_selected > 0

(***************************************************************************)
(* conflict_resolver.py: the interactive resolution of one agent file      *)
(* (mode DIFF), with its merge.                                            *)
(***************************************************************************)

\* parse_agent_sections: << yaml_frontmatter, markdown_body >>
parse_agent_sections(content) ==
    LET found == FrontmatterMatch(content)
    IN  IF IsNone(found) THEN << "", content >>
        ELSE << Value(found).yaml_content, Value(found).body_content >>

\* DiffBlock (the fields the merge reads).
DiffBlock(block_num, start_line, end_line, existing_lines, incoming_lines, context_before, context_after) ==
    [block_num |-> block_num, start_line |-> start_line, end_line |-> end_line,
     existing_lines |-> existing_lines, incoming_lines |-> incoming_lines,
     context_before |-> context_before, context_after |-> context_after]

\* Every opcode makes a block.
EveryOpcode(opcodes) == opcodes
\* `if tag == 'equal': continue`: the opcodes that make a block.
Differing(opcodes) == SelectSeq(opcodes, LAMBDA op : op[1] # "equal")

\* get_diff_blocks: one block for every opcode that is not 'equal'.
get_diff_blocks(existing_text, incoming_text) ==
    LET ex_lines == splitlines(existing_text, FALSE)
        in_lines == splitlines(incoming_text, FALSE)
        changed == Differing(get_opcodes(ex_lines, in_lines))
    IN  [n \in 1..Len(changed) |->
            DiffBlock(n, changed[n][2] + 1, changed[n][3],
                      SubSeq(ex_lines, changed[n][2] + 1, changed[n][3]),
                      SubSeq(in_lines, changed[n][4] + 1, changed[n][5]),
                      SubSeq(ex_lines, Max({0, changed[n][2] - 2}) + 1,
                             changed[n][2]),
                      SubSeq(ex_lines, changed[n][3] + 1,
                             Min({Len(ex_lines), changed[n][3] + 2})))]

\* result_lines[start_idx:end_idx] = lines
Splice(result_lines, start_idx, end_idx, lines) ==
    SubSeq(result_lines, 1, start_idx) \o lines
        \o SubSeq(result_lines, end_idx + 1, Len(result_lines))

\* line_by_line_merge before its first block: the blocks, the lines of the
\* existing text, no offset yet, no choice made.
LineMerge(existing_text, incoming_text) ==
    [blocks |-> get_diff_blocks(existing_text, incoming_text),
     result_lines |-> splitlines(existing_text, FALSE),
     offset |-> 0,
     picks |-> << >>,
     existing |-> existing_text,
     incoming |-> incoming_text]

\* "# --- incoming ---" between the two sides of a block kept both ways.
BothWays(block) ==
    block.existing_lines \o << "# --- incoming ---" >> \o block.incoming_lines

\* One turn of the loop of line_by_line_merge: the choice for the next
\* block.
MergeBlockStep(lm, choice) ==
    LET block == lm.blocks[Len(lm.picks) + 1]
        start_idx == block.start_line - 1 + lm.offset
        end_idx == block.end_line + lm.offset
        lines == IF choice = "r" THEN block.incoming_lines ELSE BothWays(block)
    IN  IF choice \in {"k", "s"}
        THEN [lm EXCEPT !.picks = Append(@, choice)]
        ELSE [lm EXCEPT !.picks = Append(@, choice),
                        !.result_lines = Splice(@, start_idx, end_idx, lines),
                        !.offset = @ + Len(lines) - Len(block.existing_lines)]

\* What line_by_line_merge returns once every block has its choice; the
\* existing text itself when there was no block.
LineMergeResult(lm) ==
    IF lm.blocks = << >> THEN lm.existing ELSE join("\n", lm.result_lines)

\* merge_section for the choices that need no further question.
merge_section(existing_text, incoming_text, choice) ==
    CASE choice = "k" -> existing_text
      [] choice = "r" -> incoming_text
      [] choice = "b" -> existing_text \o "\n\n# --- Merged from incoming ---\n"
                           \o incoming_text

\* Rich reads "[/name]" as the end of a style: printing a line as markup
\* raises MarkupError when the line closes a style it did not open.
ClosesAt(line, i, j) ==
    /\ CharAt(line, j) = "]"
    /\ \A m \in (i + 1)..(j - 1) : CharAt(line, m) \notin {"[", "]"}
    /\ \A o \in 1..i :
          SubSeq(line, o, o + j - i - 1) # "[" \o SubSeq(line, i + 2, j)
ClosesUnopenedStyle(line) ==
    \E i \in 1..(Len(line) - 1) :
        /\ SubSeq(line, i, i + 1) = "[/"
        /\ \E j \in (i + 2)..Len(line) : ClosesAt(line, i, j)
MarkupFails(lines) == \E n \in DOMAIN lines : ClosesUnopenedStyle(lines[n])

MaxChoices == 3     \* answers v, s and m at the resolver's prompt

\* The texts in conflict: plain ones whose blocks replace, insert and
\* delete lines, one without a final line break, one with a line Rich reads
\* as markup, three with frontmatter, one whose frontmatter is empty and
\* one with a blank after the closing delimiter and a blank line before
\* the body.
ConflictTexts ==
    {"a\nb\nc\n", "a\nc\n", "b\nd\n", "x\nb\ny\nz\n", "a\nb\nc", "[/x]\n",
     "---\nn: 1\n---\nbody\n", "---\nn: 2\n---\nother\n",
     "---\nn: 1\n---\nbody\nmore\n", "---\n\n---\nbody\n",
     "---\nn: 1\n--- \n\nbody\n"}

\* resolve_conflict_interactive(existing_path, incoming_path, target_dir)
\* at its prompt for the first time: both files have been read.
InteractiveInit ==
    /\ ParseIdle
    /\ DialogIdle
    /\ pc = "awaiting_choice"
    /\ \E ex \in ConflictTexts, inc \in ConflictTexts,
          S \in SUBSET (1..MaxDupSuffix) :
          /\ ex # inc
          /\ home_agents = AgentsDirWith(File(ex), S)
          /\ conflict = Some(Conflict(Some(Dir(AgentName, Some(File(inc)))), None))
          /\ existing = ex
          /\ incoming = inc
    /\ tree0 = Some([home |-> home_agents, cwd |-> EmptyDir,
                     skills |-> EmptyDir, project_skills |-> EmptyDir])
    /\ choices = << >>
    /\ merge = None
    /\ merged_content = None
    /\ cwd_agents = EmptyDir
    /\ skills_base = EmptyDir
    /\ calls = << >>
    /\ archive_agent = None
    /\ local_agent = None
    /\ comparison = None
    /\ diff_summary = None
    /\ archive = None
    /\ temp_dir = None
    /\ metadata = None
    /\ archive_agents = << >>
    /\ comparisons = << >>
    /\ outcome = None
    /\ first_run = None
    /\ SkillCompareIdle
    /\ ImportIdle

interactive_frame ==
    << cwd_agents, skills_base, calls, conflict, existing, incoming,
       archive_agent, local_agent, comparison, diff_summary, archive, temp_dir,
       metadata, archive_agents, comparisons, tree0, first_run, skillcmp_vars,
       import_vars, parse_vars, dialog_vars >>

\* An exception leaves resolve_conflict_interactive.
InteractiveRaise(exc, message) ==
    /\ outcome' = Some(Raised(exc, message))
    /\ pc' = "done"
    /\ merge' = None
    /\ merged_content' = None

\* Lines 475-488: o, k and d do what the modes OVERWRITE, KEEP and
\* DUPLICATE do, and return.
ChooseResolution ==
    /\ pc = "awaiting_choice"
    /\ \E choice \in {"o", "k", "d"} :
          LET r == resolve_conflict(AgentName,
                                    Value(Value(Value(conflict).agent).files),
                                    home_agents, ChoiceMode(choice))
          IN  /\ choices' = Append(choices, choice)
              /\ home_agents' = r.directory
              /\ outcome' = Some(r.outcome)
    /\ pc' = "done"
    /\ UNCHANGED << interactive_frame, merge, merged_content >>

\* Lines 490-492: v prints the unified diff (rich.syntax.Syntax, no markup)
\* and the loop asks again.
ViewUnifiedDiff ==
    /\ pc = "awaiting_choice"
    /\ Len(choices) < MaxChoices
    /\ choices' = Append(choices, "v")
    /\ UNCHANGED << interactive_frame, pc, home_agents, outcome, merge,
                    merged_content >>

\* Lines 494-496: s prints the table of show_side_by_side, every line of
\* both texts between "[style]" and "[/style]", and the loop asks again;
\* console.print(table) raises MarkupError for a line that closes a style.
ViewSideBySide ==
    /\ pc = "awaiting_choice"
    /\ Len(choices) < MaxChoices
    /\ choices' = Append(choices, "s")
    /\ IF MarkupFails(splitlines(existing, FALSE) \o splitlines(incoming, FALSE))
       THEN InteractiveRaise("MarkupError", "closing tag doesn't match any open tag")
       ELSE UNCHANGED << pc, outcome, merge, merged_content >>
    /\ UNCHANGED << interactive_frame, home_agents >>

\* interactive_merge under way: the sections (frontmatter and body, or the
\* whole text), what has been decided for each so far, the sections still
\* to be asked about, and the line-by-line merge begun last.
Merging(sectioned, parts, incomings, pending, lines) ==
    [sectioned |-> sectioned, parts |-> parts, incomings |-> incomings,
     pending |-> pending, lines |-> lines, answers |-> << >>]

\* An answer at a prompt of the merge, with the part of the text it was
\* asked about (1 and 2 are frontmatter and body in a merge by sections).
Answer(part, choice) == [part |-> part, choice |-> choice]

\* Lines 347-392: interactive_merge up to its first question.
interactive_merge(existing_text, incoming_text) ==
    LET ex == parse_agent_sections(existing_text)
        inc == parse_agent_sections(incoming_text)
    IN  IF ex[1] # "" /\ inc[1] # ""
        THEN Merging(TRUE, ex, inc,
                     SelectSeq(<< 1, 2 >>, LAMBDA i : ex[i] # inc[i]), None)
        ELSE Merging(FALSE, << existing_text >>, << incoming_text >>, << 1 >>,
                     Some(LineMerge(existing_text, incoming_text)))

\* Every block of the line-by-line merge has its choice.
Finished(lm) == Len(lm.picks) = Len(lm.blocks)

\* line_by_line_merge returns when every block has its choice: its result
\* is the section's text.
Settle(m) ==
    IF ~IsNone(m.lines) /\ Finished(Value(m.lines))
    THEN [m EXCEPT !.parts[Head(m.pending)] = LineMergeResult(Value(m.lines)),
                   !.pending = Tail(@)]
    ELSE m

\* The prompt the merge is at next.
Position(m) ==
    IF ~IsNone(m.lines) /\ ~Finished(Value(m.lines)) THEN "merge_block"
    ELSE IF m.pending # << >> THEN "merge_section"
    ELSE "confirm"

\* What interactive_merge returns.
MergedText(m) ==
    IF m.sectioned THEN "---\n" \o m.parts[1] \o "\n---\n" \o m.parts[2]
    ELSE m.parts[1]

\* The lines display_diff_block prints as markup for the next block.
Displayed(lm) ==
    LET block == lm.blocks[Len(lm.picks) + 1]
    IN  block.context_before \o block.existing_lines \o block.incoming_lines
          \o block.context_after

\* The merge goes on to its next prompt: the next block is displayed, or
\* the merged text is previewed in a Panel (markup again) before the
\* question "Save merged result?".
Goto(m) ==
    LET s == Settle(m)
        at == Position(s)
    IN  IF \/ at = "merge_block" /\ MarkupFails(Displayed(Value(s.lines)))
           \/ at = "confirm" /\ MarkupFails(splitlines(MergedText(s), FALSE))
        THEN InteractiveRaise("MarkupError", "closing tag doesn't match any open tag")
        ELSE /\ merge' = Some(s)
             /\ pc' = at
             /\ merged_content' = IF at = "confirm" THEN Some(MergedText(s))
                                  ELSE None
             /\ outcome' = outcome

\* Line 498-499: m starts the merge.
StartMerge ==
    /\ pc = "awaiting_choice"
    /\ Len(choices) < MaxChoices
    /\ choices' = Append(choices, "m")
    /\ Goto(interactive_merge(existing, incoming))
    /\ UNCHANGED << interactive_frame, home_agents >>

\* merge_section (lines 266-297): keep, replace, both, or line by line.
MergeSection ==
    /\ pc = "merge_section"
    /\ LET m == Value(merge)
           i == Head(m.pending)
       IN  \E choice \in {"k", "r", "b", "l"} :
              IF choice = "l"
              THEN Goto([m EXCEPT !.lines =
                            Some(LineMerge(m.parts[i], m.incomings[i])),
                                  !.answers = Append(@, Answer(i, choice))])
              ELSE Goto([m EXCEPT !.parts[i] =
                                     merge_section(m.parts[i], m.incomings[i], choice),
                                  !.pending = Tail(@),
                                  !.lines = None,
                                  !.answers = Append(@, Answer(i, choice))])
    /\ UNCHANGED << interactive_frame, home_agents, choices >>

\* line_by_line_merge (lines 314-342): the choice for one block.
MergeBlock ==
    /\ pc = "merge_block"
    /\ \E choice \in {"k", "r", "b", "s"} :
          Goto([Value(merge) EXCEPT
                   !.lines = Some(MergeBlockStep(Value(@), choice)),
                   !.answers = Append(@, Answer(Head(Value(merge).pending), choice))])
    /\ UNCHANGED << interactive_frame, home_agents, choices >>

\* `if Confirm.ask("Save merged result?", default=True):`
SaveAlways(answer) == TRUE
SaveMerged(answer) == answer

\* Lines 505-510: the merged text is written over the existing file and
\* the path returned, or the loop asks again.
ConfirmSave ==
    /\ pc = "confirm"
    /\ \E answer \in BOOLEAN :
          /\ choices' = Append(choices, IF answer THEN "y" ELSE "n")
          /\ IF SaveMerged(answer)
             THEN /\ home_agents' = [home_agents EXCEPT ![AgentName] =
                                        File(Value(merged_content))]
                  /\ outcome' = Some(Returned(Some(AgentName)))
                  /\ pc' = "done"
                  /\ UNCHANGED << merge, merged_content >>
             ELSE /\ pc' = "awaiting_choice"
                  /\ merge' = None
                  /\ merged_content' = None
                  /\ UNCHANGED << home_agents, outcome >>
    /\ UNCHANGED interactive_frame

InteractiveNext ==
    \/ ChooseResolution
    \/ ViewUnifiedDiff
    \/ ViewSideBySide
    \/ StartMerge
    \/ MergeSection
    \/ MergeBlock
    \/ ConfirmSave

SpecInteractive == InteractiveInit /\ [][InteractiveNext]_vars

(***************************************************************************)
(* Claims about the interactive resolver and its merge (SpecInteractive).  *)
(***************************************************************************)
Last(s) == s[Len(s)]

\* The target directory as it was when the resolver was called.
Dir0 == Value(tree0).home

\* The resolver raised instead of returning.
ResolverRaised ==
    /\ pc = "done"
    /\ choices # << >>
    /\ ~IsNone(outcome)
    /\ Value(outcome).kind = "raise"

\* C28: in DIFF mode the resolver stays at its choice prompt across any
\* number of 'view unified diff' and 'view side-by-side' answers, with no
\* file or directory changed, and leaves the loop only on overwrite, keep,
\* duplicate or a confirmed merge.
C28_ViewsKeepResolverAwaiting ==
    choices # << >> =>
        /\ Last(choices) \in {"v", "s"} =>
              /\ pc = "awaiting_choice"
              /\ IsNone(outcome)
              /\ home_agents = Dir0
        /\ pc = "done" => Last(choices) \in {"o", "k", "d", "y"}

\* The merge has asked everything and not been confirmed yet, or is still
\* asking.
InMerge == pc \in {"merge_section", "merge_block", "confirm"}

\* C29: the merged text is written only after the confirmation.  While the
\* merge runs and when the user declines, the existing file and its
\* directory are as they were, and after declining the resolver is back at
\* its choice prompt; on confirmation the existing file holds exactly the
\* merged text and its path is returned.
C29_MergeWrittenOnlyOnConfirm ==
    /\ InMerge => home_agents = Dir0
    /\ (choices # << >> /\ Last(choices) = "n") =>
          /\ pc = "awaiting_choice"
          /\ IsNone(outcome)
          /\ merge = None
          /\ home_agents = Dir0
    /\ (choices # << >> /\ Last(choices) = "y") =>
          /\ pc = "done"
          /\ outcome = Some(Returned(Some(AgentName)))
          /\ home_agents = [Dir0 EXCEPT ![AgentName] = File(Value(merged_content))]

\* A merge declined once and confirmed the second time, its text differing
\* from the existing file's.
C29_Witness ==
    /\ pc = "done"
    /\ Last(choices) = "y"
    /\ \E n \in 1..Len(choices) : choices[n] = "n"
    /\ home_agents[AgentName].text # existing
    /\ home_agents[AgentName].text = Value(merged_content)

\* The lines a choice leaves in place of a block.
Chosen(block, choice) ==
    CASE choice \in {"k", "s"} -> block.existing_lines
      [] choice = "r" -> block.incoming_lines
      [] choice = "b" -> block.existing_lines \o << "# --- incoming ---" >>
                           \o block.incoming_lines

\* The unchanged segments and the blocks' chosen lines, in document order:
\* the lines from existing line `from` on, with block n next.
RECURSIVE ExpectedLines(_, _, _)
ExpectedLines(lm, from, n) ==
    LET ex_lines == splitlines(lm.existing, FALSE)
    IN  IF n > Len(lm.blocks) THEN SubSeq(ex_lines, from, Len(ex_lines))
        ELSE SubSeq(ex_lines, from, lm.blocks[n].start_line - 1)
               \o Chosen(lm.blocks[n], lm.picks[n])
               \o ExpectedLines(lm, lm.blocks[n].end_line + 1, n + 1)

\* A line-by-line merge that has had a choice for each of its blocks.
LineMergeDone ==
    /\ ~IsNone(merge)
    /\ ~IsNone(Value(merge).lines)
    /\ Value(Value(merge).lines).blocks # << >>
    /\ Finished(Value(Value(merge).lines))

AllReplaced ==
    /\ LineMergeDone
    /\ \A n \in DOMAIN Value(Value(merge).lines).picks :
          Value(Value(merge).lines).picks[n] = "r"

BulkAgents == Bulk /\ Value(request).import_type # "skills-only"

\* The agent files a bulk import finds in the archive: glob under
\* user-agents, rglob under project-agents.
AgentFilesFound ==
    Cardinality(GlobMd(Value(archive).entries, "user-agents"))
      + Cardinality(RGlobMd(Value(archive).entries, "project-agents"))

AgentsProcessed == {n \in 1..Len(processed) : processed[n].kind = "agent"}

\* C33: a bulk agent import that completes counts every agent file found
\* in the archive once: imported + skipped is the number of user and
\* project agent files found, the conflict count is the number of those
\* whose target existed when they were processed, an agent without a local
\* counterpart is copied and counted as imported, and declining to create
\* the project directory counts every project agent as skipped and writes
\* none.
C33_BulkCountsEveryAgentOnce ==
    [][/\ (BulkAgents /\ ~IsNone(run_summary')) =>
             /\ Value(stats').imported_count + Value(stats').skipped_count
                   = AgentFilesFound
             /\ Value(stats').conflict_count
                   = Cardinality({n \in AgentsProcessed : processed'[n].conflict})
       /\ (/\ BulkAgents /\ pc = "im_loop" /\ queue # << >>
           /\ Head(queue).kind = "agent"
           /\ ~exists(AgentsDir(Head(queue).scope), Head(queue).name)
           /\ queue' = Tail(queue)) =>
             /\ LET after == IF Head(queue).scope = "user" THEN home_agents'
                             ELSE cwd_agents'
                IN  /\ exists(after, Head(queue).name)
                    /\ after[Head(queue).name] = Head(queue).src
             /\ Value(stats') = [Value(stats) EXCEPT !.imported_count = @ + 1]
       /\ (/\ BulkAgents /\ pc = "im_prompt"
           /\ Value(prompt).at = "create_dir" /\ Head(queue).name = "agents"
           /\ pc' = "im_loop" /\ ~cwd_claude') =>
             /\ Value(stats') = [Value(stats) EXCEPT
                                   !.skipped_count = @ + Cardinality(
                                       RGlobMd(Value(archive).entries,
                                               "project-agents"))]
             /\ \A n \in 1..Len(queue') :
                   ~(queue'[n].kind = "agent" /\ queue'[n].scope = "project")
             /\ UNCHANGED << home_agents, cwd_agents >>]_vars

\* A bulk import that completed, with an agent that met an existing file
\* and the project agents declined.
C33_Witness ==
    /\ BulkAgents
    /\ ~IsNone(run_summary)
    /\ \E n \in AgentsProcessed : processed[n].conflict
    /\ Value(stats).skipped_count > 0
    /\ Value(stats).imported_count > 0

\* A selective import that returned its statistics.
SelectiveReturned ==
    /\ Selective
    /\ ~IsNone(outcome)
    /\ Value(outcome).kind = "return"

SelectiveCounters == {"new_imported", "changed_imported", "identical_skipped"}

\* C34: the statistics import_agents_selective returns partition the
\* archive when the selection is a sub-list of the comparisons of an
\* analysis of the same archive: the four counters add up to
\* total_in_archive, none is negative, and every selected comparison went
\* into exactly one counter.
C34_SelectiveStatsPartitionArchive ==
    SelectiveReturned =>
        LET s == Value(stats)
        IN  /\ s.new_imported + s.changed_imported + s.identical_skipped
                  + s.not_selected = Value(request).total_in_archive
            /\ \A c \in SelectiveCounters \cup {"not_selected"} : s[c] >= 0
            /\ Len(processed) = Len(Value(request).selected_comparisons)
            /\ \A n \in 1..Len(processed) :
                  processed[n].counted \in SelectiveCounters
            /\ \A c \in SelectiveCounters :
                  s[c] = Cardinality({n \in 1..Len(processed) :
                                         processed[n].counted = c})

\* A selective import that returned with a changed agent counted and
\* another agent of the archive left out of the selection.
C34_Witness ==
    /\ SelectiveReturned
    /\ \E n \in 1..Len(processed) : processed[n].counted = "changed_imported"
    /\ Value(stats).not_selected > 0


(***************************************************************************)
(* file_by_file_merge and restore_permissions with the permission bits of  *)
(* the files (skill_conflict_resolver.py 116-141, 396-471).                *)
(***************************************************************************)
\* A file of a skill directory with its permission bits.
Stat(text, mode) == [text |-> text, readable |-> TRUE, mode |-> mode]

\* The directory without rel_path: Path.unlink.
Unlinked(files, rel_path) == [f \in DOMAIN files \ {rel_path} |-> files[f]]

\* The first "[/name]" of a line that closes a style the line did not open.
UnopenedTag(line) ==
    LET i == CHOOSE i \in 1..(Len(line) - 1) :
                 /\ SubSeq(line, i, i + 1) = "[/"
                 /\ \E j \in (i + 2)..Len(line) : ClosesAt(line, i, j)
        j == CHOOSE j \in (i + 2)..Len(line) : ClosesAt(line, i, j)
    IN  SubSeq(line, i, j)

\* Lines 137-139: the warning for one file, printed as markup.
FileWarning(rel_path) ==
    "[yellow]Warning: Could not restore permissions for " \o rel_path
        \o ": [Errno 1] Operation not permitted: '" \o rel_path \o "'[/yellow]"

\* Line 141: the warning of the outer handler; e is what the loop raised.
RestoreWarning(e) == "[yellow]Warning: Permission restore failed: " \o e \o "[/yellow]"

\* str(MarkupError) for a closing tag without an opening one.
MarkupErrorText(line) ==
    "closing tag '" \o UnopenedTag(line) \o "' doesn't match any open tag"

Restored(directory, warnings, result) ==
    [directory |-> directory, warnings |-> warnings, outcome |-> result]

\* restore_permissions(source_dir, target_dir), lines 124-141, over the
\* source files in the order rglob yields them.  chmod raises for the
\* targets of denied; the handler's console.print raises MarkupError for a
\* warning that closes a style it did not open, which ends the loop in the
\* outer handler, whose console.print can raise in turn.
RECURSIVE restore_permissions(_, _, _, _, _)
restore_permissions(order, source_dir, target_dir, denied, warnings) ==
    IF order = << >> THEN Restored(target_dir, warnings, Returned(None))
    ELSE LET rel_path == Head(order)
         IN  IF ~exists(target_dir, rel_path)
             THEN restore_permissions(Tail(order), source_dir, target_dir, denied,
                                      warnings)
             ELSE IF rel_path \notin denied
             THEN restore_permissions(
                      Tail(order), source_dir,
                      [target_dir EXCEPT ![rel_path].mode = source_dir[rel_path].mode],
                      denied, warnings)
             ELSE IF ~ClosesUnopenedStyle(FileWarning(rel_path))
             THEN restore_permissions(Tail(order), source_dir, target_dir, denied,
                                      Append(warnings, FileWarning(rel_path)))
             ELSE LET e == MarkupErrorText(FileWarning(rel_path))
                  IN  IF ClosesUnopenedStyle(RestoreWarning(e))
                      THEN Restored(target_dir, warnings,
                                    Raised("MarkupError",
                                           MarkupErrorText(RestoreWarning(e))))
                      ELSE Restored(target_dir, Append(warnings, RestoreWarning(e)),
                                    Returned(None))

\* The orders in which rglob("*") can yield the files of a directory.
RGlobOrders(directory) ==
    {order \in [1..Cardinality(DOMAIN directory) -> DOMAIN directory] :
        \A i, j \in DOMAIN order : i # j => order[i] # order[j]}

\* The existing skill directories of the merge: SKILL.md, and any of run.sh,
\* lib/util.py and a file under the directory "a[".
MergeExisting ==
    {[rel_path \in {"SKILL.md"} \cup S |->
         CASE rel_path = "SKILL.md" -> Stat("---\nname: skill\n---\n", md_mode)
           [] rel_path = "run.sh" -> Stat("x\n", "755")
           [] OTHER -> Stat("u\n", "600")] :
       S \in SUBSET {"run.sh", "lib/util.py", "a[/b].py"}, md_mode \in {"600", "644"}}

\* The incoming ones: every file arrives with mode 644; run.sh and
\* lib/util.py arrive with the local content or another one.
MergeIncoming ==
    {[rel_path \in {"SKILL.md"} \cup S |->
         CASE rel_path = "SKILL.md" -> Stat("---\nname: skill\n---\n", "644")
           [] rel_path = "run.sh" -> Stat(sh, "644")
           [] rel_path = "lib/util.py" -> Stat(py, "644")
           [] OTHER -> Stat("u\n", "644")] :
       S \in SUBSET {"run.sh", "lib/util.py", "a[/b].py"},
       sh \in {"x\n", "y\n"}, py \in {"u\n", "v\n"}}

\* file_by_file_merge(existing_dir, incoming_dir, comparison) at its first
\* question; comparison is compare_skill_directories of the two.
FileMergeInit ==
    /\ pc = "fm_ask"
    /\ \E existing_dir \in MergeExisting, incoming_dir \in MergeIncoming :
       \E denied \in {D \in SUBSET DOMAIN existing_dir : Cardinality(D) <= 1} :
          file_merge = Some([existing_dir |-> existing_dir,
                             incoming_dir |-> incoming_dir,
                             before |-> existing_dir,
                             denied |-> denied,
                             todo |-> MergeQuestions(
                                          DirectoryDiff(HashAll(existing_dir),
                                                        HashAll(incoming_dir))),
                             answered |-> << >>,
                             changes_made |-> FALSE,
                             restored |-> None,
                             returned |-> None])
    /\ selection = None
    /\ ParseIdle
    /\ InteractiveIdle
    /\ home_agents = EmptyDir
    /\ cwd_agents = EmptyDir
    /\ CompareIdle
    /\ AnalysisIdle
    /\ ResolveIdle
    /\ SkillCompareIdle
    /\ ImportIdle

file_merge_frame ==
    << tree_vars, compare_vars, analysis_vars, resolve_vars, skillcmp_vars,
       import_vars, parse_vars, interactive_vars, selection >>

\* One question has been answered: the loop goes on.
Answered(answer, directory, changed) ==
    file_merge' = Some([Value(file_merge) EXCEPT
                          !.existing_dir = directory,
                          !.todo = Tail(@),
                          !.answered = Append(@, << Head(Value(file_merge).todo)[1],
                                                    Head(Value(file_merge).todo)[2],
                                                    answer >>),
                          !.changes_made = @ \/ changed])

\* shutil.copy2 onto a file whose metadata the process may not set:
\* copyfile has written the content when copystat raises PermissionError,
\* which leaves file_by_file_merge.
CopyDenied(rel_path) ==
    /\ file_merge' = Some([Value(file_merge) EXCEPT
                             !.existing_dir[rel_path].text =
                                 Value(file_merge).incoming_dir[rel_path].text,
                             !.returned = Some(Raised("PermissionError", rel_path))])
    /\ pc' = "fm_done"

\* Lines 420-428: a file only the incoming directory has.
AddFile ==
    /\ pc = "fm_ask"
    /\ Value(file_merge).todo # << >>
    /\ Head(Value(file_merge).todo)[1] = "added"
    /\ LET rel_path == Head(Value(file_merge).todo)[2]
           fm == Value(file_merge)
       IN  \E answer \in {"y", "n"} :
              Answered(answer,
                       IF answer = "y"
                       THEN copy2(fm.incoming_dir[rel_path], fm.existing_dir, rel_path)
                       ELSE fm.existing_dir,
                       answer = "y")
    /\ UNCHANGED << pc, file_merge_frame >>

\* Lines 431-453: a file whose content differs.
ModifiedFile ==
    /\ pc = "fm_ask"
    /\ Value(file_merge).todo # << >>
    /\ Head(Value(file_merge).todo)[1] = "modified"
    /\ LET rel_path == Head(Value(file_merge).todo)[2]
           fm == Value(file_merge)
       IN  \E choice \in {"k", "r", "s"} :
              IF choice = "r" /\ rel_path \in fm.denied
              THEN CopyDenied(rel_path)
              ELSE /\ Answered(choice,
                               IF choice = "r"
                               THEN copy2(fm.incoming_dir[rel_path], fm.existing_dir,
                                          rel_path)
                               ELSE fm.existing_dir,
                               choice = "r")
                   /\ UNCHANGED pc
    /\ UNCHANGED file_merge_frame

\* Lines 456-462: a file only the existing directory has.
RemovedFile ==
    /\ pc = "fm_ask"
    /\ Value(file_merge).todo # << >>
    /\ Head(Value(file_merge).todo)[1] = "removed"
    /\ LET rel_path == Head(Value(file_merge).todo)[2]
           fm == Value(file_merge)
       IN  \E answer \in {"y", "n"} :
              Answered(answer,
                       IF answer = "y" THEN Unlinked(fm.existing_dir, rel_path)
                       ELSE fm.existing_dir,
                       answer = "y")
    /\ UNCHANGED << pc, file_merge_frame >>

\* Lines 465-471: after the last question restore_permissions runs if a
\* change was made, and changes_made is returned.
FinishFileMerge ==
    /\ pc = "fm_ask"
    /\ Value(file_merge).todo = << >>
    /\ LET fm == Value(file_merge)
       IN  IF ~fm.changes_made
           THEN file_merge' = Some([fm EXCEPT !.returned = Some(Returned(FALSE))])
           ELSE \E order \in RGlobOrders(fm.incoming_dir) :
                   LET restored == restore_permissions(order, fm.incoming_dir,
                                                       fm.existing_dir, fm.denied,
                                                       << >>)
                   IN  file_merge' = Some([fm EXCEPT
                           !.existing_dir = restored.directory,
                           !.restored = Some(restored),
                           !.returned = Some(IF restored.outcome.kind = "raise"
                                             THEN restored.outcome
                                             ELSE Returned(TRUE))])
    /\ pc' = "fm_done"
    /\ UNCHANGED file_merge_frame

FileMergeNext == AddFile \/ ModifiedFile \/ RemovedFile \/ FinishFileMerge

SpecFileMerge == FileMergeInit /\ [][FileMergeNext]_vars

FileMergeReturned ==
    /\ pc = "fm_done"
    /\ ~IsNone(file_merge)
    /\ Value(Value(file_merge).returned).kind = "return"

\* C35: when file_by_file_merge returns, an added file is in the directory
\* (with the incoming content) only if it was confirmed, a modified file
\* holds the incoming content only if 'replace' was chosen, a removed file is
\* gone only if its deletion was confirmed; every file that was kept, skipped
\* or declined has the content and the permission bits it had before; and the
\* merge reports an import exactly when at least one change was applied.
C35_MergeAppliesOnlyConfirmed ==
    FileMergeReturned =>
        LET fm == Value(file_merge)
            final == fm.existing_dir
        IN  /\ \A n \in 1..Len(fm.answered) :
                  LET what == fm.answered[n][1]
                      rel_path == fm.answered[n][2]
                      applied == fm.answered[n][3] \in {"y", "r"}
                  IN  /\ what = "added" =>
                             (exists(final, rel_path) <=> applied)
                      /\ (what = "added" /\ applied) =>
                             final[rel_path].text = fm.incoming_dir[rel_path].text
                      /\ what = "modified" =>
                             final[rel_path].text
                                = IF applied THEN fm.incoming_dir[rel_path].text
                                  ELSE fm.before[rel_path].text
                      /\ what = "removed" => (exists(final, rel_path) <=> ~applied)
                      /\ (~applied /\ exists(fm.before, rel_path)) =>
                             final[rel_path] = fm.before[rel_path]
            /\ Value(fm.returned).value
                  = (\E n \in 1..Len(fm.answered) :
                        fm.answered[n][3] \in {"y", "r"})

\* restore_permissions has run.
PermissionsRestored == ~IsNone(file_merge) /\ ~IsNone(Value(file_merge).restored)

\* C36: restore_permissions is best-effort per file: a file whose mode
\* cannot be applied gets a warning, no exception leaves the function, and
\* every other target file with a counterpart in the source has the
\* incoming mode afterwards.
C36_RestorePermissionsBestEffort ==
    PermissionsRestored =>
        LET fm == Value(file_merge)
            restored == Value(fm.restored)
            common == DOMAIN fm.incoming_dir \cap DOMAIN restored.directory
        IN  /\ restored.outcome.kind = "return"
            /\ \A rel_path \in common \cap fm.denied :
                  \E n \in 1..Len(restored.warnings) :
                      restored.warnings[n] = FileWarning(rel_path)
            /\ \A rel_path \in common \ fm.denied :
                  restored.directory[rel_path].mode = fm.incoming_dir[rel_path].mode

\* The text splits into a frontmatter block and a body.
Splits(content) == ~IsNone(FrontmatterMatch(content))

\* C31: interactive_merge resolves by sections exactly when both the
\* existing and the incoming text split into a frontmatter block and a
\* body, and line by line over the whole file otherwise; in a merge by
\* sections an identical section is never asked about and is carried over
\* unchanged, and the result is the chosen frontmatter between two "---"
\* lines followed by the chosen body.
C31_SectionsWhenBothSplit ==
    InMerge =>
        LET m == Value(merge)
            ex == parse_agent_sections(existing)
            inc == parse_agent_sections(incoming)
        IN  /\ m.sectioned <=> (Splits(existing) /\ Splits(incoming))
            /\ m.sectioned =>
                  /\ \A i \in {1, 2} :
                        ex[i] = inc[i] =>
                           /\ \A n \in 1..Len(m.answers) : m.answers[n].part # i
                           /\ m.parts[i] = ex[i]
                  /\ pc = "confirm" =>
                        Value(merged_content)
                           = "---\n" \o m.parts[1] \o "\n---\n" \o m.parts[2]
            /\ ~m.sectioned =>
                  /\ ~IsNone(m.lines)
                  /\ Value(m.lines).blocks = get_diff_blocks(existing, incoming)

\* Keep-existing was the answer at every prompt of the merge, which is at
\* its end.
KeptEverywhere ==
    /\ pc = "confirm"
    /\ ~IsNone(merge)
    /\ Value(merge).answers # << >>
    /\ \A n \in 1..Len(Value(merge).answers) : Value(merge).answers[n].choice = "k"

\* C32: with keep-existing chosen at every prompt of interactive_merge, by
\* sections or by lines, the merged text equals the existing file's content
\* character for character.
C32_KeepEverywhereIsExisting ==
    KeptEverywhere => Value(merged_content) = existing

\* A line-by-line merge has computed its blocks.
BlocksComputed == InMerge /\ ~IsNone(merge) /\ ~IsNone(Value(merge).lines)

\* C40: get_diff_blocks returns the differing runs in document order: the
\* blocks are numbered 1..n, each block holds the existing lines of its
\* range and other incoming lines, the ranges ascend with at least one
\* unchanged line between consecutive blocks, each block carries at most
\* two context lines before and after, taken from the existing text, and
\* the list is empty exactly when the two line sequences are equal.
C40_DiffBlocksAreOrderedRuns ==
    BlocksComputed =>
        LET lm == Value(Value(merge).lines)
            blocks == lm.blocks
            ex_lines == splitlines(lm.existing, FALSE)
            in_lines == splitlines(lm.incoming, FALSE)
        IN  /\ \A n \in 1..Len(blocks) :
                  LET block == blocks[n]
                      before == Len(block.context_before)
                      after == Len(block.context_after)
                  IN  /\ block.block_num = n
                      /\ 1 <= block.start_line
                      /\ block.start_line <= block.end_line + 1
                      /\ block.end_line <= Len(ex_lines)
                      /\ block.existing_lines
                            = SubSeq(ex_lines, block.start_line, block.end_line)
                      /\ block.existing_lines # block.incoming_lines
                      /\ before <= 2
                      /\ before = Min({2, block.start_line - 1})
                      /\ block.context_before
                            = SubSeq(ex_lines, block.start_line - before,
                                     block.start_line - 1)
                      /\ after <= 2
                      /\ after = Min({2, Len(ex_lines) - block.end_line})
                      /\ block.context_after
                            = SubSeq(ex_lines, block.end_line + 1,
                                     block.end_line + after)
            /\ \A n \in 1..(Len(blocks) - 1) :
                  blocks[n + 1].start_line > blocks[n].end_line + 1
            /\ (blocks = << >>) <=> (ex_lines = in_lines)

\* Two blocks, the first with two lines of context after it.
C40_Witness ==
    /\ BlocksComputed
    /\ Len(Value(Value(merge).lines).blocks) = 2
    /\ Len(Value(Value(merge).lines).blocks[1].context_after) = 2

\* A bulk import of agents in OVERWRITE mode has completed.
OverwriteCompleted ==
    /\ BulkAgents
    /\ Value(request).conflict_mode = "overwrite"
    /\ ~IsNone(run_summary)

\* C37: after a bulk import in OVERWRITE mode has completed, an analysis of
\* the same archive classifies every user-scoped agent as IDENTICAL,
\* whatever the local tree held before and whatever name the agent's
\* frontmatter declares.
C37_OverwriteThenAnalyseIdentical ==
    OverwriteCompleted =>
        \A analysed \in AnalysedBy(Value(archive), home_agents, cwd_agents) :
            \A n \in 1..Len(analysed) :
                analysed[n].agent.agent_type = "user" =>
                    analysed[n].status = "IDENTICAL"

\* export_agents_and_skills has returned: the archive is written.
ExportReturned ==
    /\ ~IsNone(request)
    /\ Value(request).op = "export"
    /\ ~IsNone(outcome)
    /\ Value(outcome).kind = "return"

\* The agent files and the skill directories packed under a top-level
\* directory of the archive.
PackedAgents(entries, top) == {q \in DOMAIN entries : q[1] = top}
PackedSkills(entries, top) ==
    {SubSeq(q, 1, Len(q) - 1) : q \in {p \in DOMAIN entries : p[1] = top}}

\* C38: the counts of the export manifest ('User Agents', 'Project
\* Agents', 'User Skills', 'Project Skills') are the numbers of agents and
\* skills actually packed into the archive, also when the source of a
\* selected item no longer exists when the export runs.
C38_ManifestCountsWhatIsPacked ==
    ExportReturned =>
        LET entries == Value(archive).entries
        IN  entries[<< "metadata.txt" >>]
               = ExportMetadata(Cardinality(PackedAgents(entries, "user-agents")),
                                Cardinality(PackedAgents(entries, "project-agents")),
                                Cardinality(PackedSkills(entries, "user-skills")),
                                Cardinality(PackedSkills(entries, "project-skills")))

(***************************************************************************)
(* selector.py: interactive_select_import_agents, the selection loop of    *)
(* the selective import.                                                   *)
(***************************************************************************)
MaxComparisons == 3     \* comparisons offered for selection

\* The comparisons of an analysis, as far as the loop reads them.
ComparisonLists ==
    UNION {[1..k -> {[status |-> s] : s \in {"NEW", "CHANGED", "IDENTICAL"}}] :
              k \in 1..MaxComparisons}

\* [i for i, comp in enumerate(comparisons) if comp.status in statuses]
IndicesWithStatus(shown, statuses) ==
    SelectSeq([n \in 1..Len(shown) |-> n - 1],
              LAMBDA i : shown[i + 1].status \in statuses)

\* Lines 255-266: the indices of the comparisons displayed under a filter.
idx_mapping(shown, filter_mode) ==
    IF filter_mode = "ALL" THEN [n \in 1..Len(shown) |-> n - 1]
    ELSE IndicesWithStatus(shown, {filter_mode})

\* Lines 268-272: a filter that shows nothing goes back to ALL at the top
\* of the loop.
Shown(shown, filter_mode) ==
    IF idx_mapping(shown, filter_mode) = << >> THEN "ALL" ELSE filter_mode

\* filter_cycle[(current_idx + 1) % len(filter_cycle)]
NextFilter(filter_mode) ==
    CASE filter_mode = "ALL" -> "NEW"
      [] filter_mode = "NEW" -> "CHANGED"
      [] filter_mode = "CHANGED" -> "IDENTICAL"
      [] filter_mode = "IDENTICAL" -> "ALL"

\* list.remove(x): the list without the first x.
RECURSIVE Removed(_, _)
Removed(list, x) ==
    IF list = << >> THEN << >>
    ELSE IF Head(list) = x THEN Tail(list)
    ELSE << Head(list) >> \o Removed(Tail(list), x)

InList(list, x) == \E n \in 1..Len(list) : list[n] = x

\* Lines 441-446: the toggle of one index.
Toggled(selected_indices, actual_idx) ==
    IF InList(selected_indices, actual_idx) THEN Removed(selected_indices, actual_idx)
    ELSE Append(selected_indices, actual_idx)

\* The two lists one after the other.
Concatenated(selected_indices, mapping) == {selected_indices \o mapping}
\* list(set(selected_indices + idx_mapping)): the indices of both lists,
\* each once, in the order the set yields them.
AllOfBoth(selected_indices, mapping) ==
    Orderings({selected_indices[n] : n \in 1..Len(selected_indices)}
                 \cup {mapping[n] : n \in 1..Len(mapping)})

Command(command, num) == [command |-> command, num |-> num]

\* Lines 226-241: the loop before its first command.
SelectInit ==
    /\ pc = "sel_menu"
    /\ \E shown \in ComparisonLists :
          selection = Some([comparisons |-> shown,
                            selected_indices |->
                                IndicesWithStatus(shown, {"NEW", "CHANGED"}),
                            filter_mode |-> "ALL",
                            last |-> Command("", 0),
                            returned |-> None])
    /\ file_merge = None
    /\ ParseIdle
    /\ InteractiveIdle
    /\ home_agents = EmptyDir
    /\ cwd_agents = EmptyDir
    /\ CompareIdle
    /\ AnalysisIdle
    /\ ResolveIdle
    /\ SkillCompareIdle
    /\ ImportIdle

select_frame ==
    << tree_vars, compare_vars, analysis_vars, resolve_vars, skillcmp_vars,
       import_vars, parse_vars, interactive_vars, file_merge >>

\* A command that leaves the loop at its menu with another selection.
Reselect(command, num, selected_indices) ==
    /\ selection' = Some([Value(selection) EXCEPT
                            !.selected_indices = selected_indices,
                            !.last = Command(command, num)])
    /\ UNCHANGED << pc, select_frame >>

\* Lines 437-453: a number toggles the comparison displayed under it; a
\* number that is not displayed gives a message.
ToggleNumber ==
    /\ pc = "sel_menu"
    /\ LET sel == Value(selection)
           mapping == idx_mapping(sel.comparisons, sel.filter_mode)
       IN  \E num \in 0..(MaxComparisons + 1) :
              Reselect("toggle", num,
                       IF 1 <= num /\ num <= Len(mapping)
                       THEN Toggled(sel.selected_indices, mapping[num])
                       ELSE sel.selected_indices)

\* Lines 320-323: a.
SelectAll ==
    /\ pc = "sel_menu"
    /\ LET sel == Value(selection)
       IN  \E both \in AllOfBoth(sel.selected_indices,
                                 idx_mapping(sel.comparisons, sel.filter_mode)) :
              Reselect("a", 0, both)

\* Lines 325-327: d.
DeselectAll ==
    /\ pc = "sel_menu"
    /\ Reselect("d", 0, << >>)

\* Lines 329-335: n.
SelectNew ==
    /\ pc = "sel_menu"
    /\ Reselect("n", 0, IndicesWithStatus(Value(selection).comparisons, {"NEW"}))

\* Lines 337-343: c.
SelectChanged ==
    /\ pc = "sel_menu"
    /\ Reselect("c", 0, IndicesWithStatus(Value(selection).comparisons, {"CHANGED"}))

\* Lines 345-350 and 268-272: f goes to the next filter, which the loop
\* leaves again at once when it shows nothing.
CycleFilter ==
    /\ pc = "sel_menu"
    /\ selection' = Some([Value(selection) EXCEPT
                            !.filter_mode = Shown(Value(selection).comparisons,
                                                  NextFilter(@)),
                            !.last = Command("f", 0)])
    /\ UNCHANGED << pc, select_frame >>

\* Lines 352-435: v, s and i ask for a number, show the comparison
\* displayed under it and go back to the menu; the two diff views print
\* the texts of a CHANGED comparison as markup, which can raise.
ViewComparison ==
    /\ pc = "sel_menu"
    /\ LET sel == Value(selection)
           mapping == idx_mapping(sel.comparisons, sel.filter_mode)
       IN  \E view \in {"v", "s", "i"} :
              \/ /\ selection' = Some([sel EXCEPT !.last = Command(view, 0)])
                 /\ UNCHANGED pc
              \/ /\ view \in {"v", "s"}
                 /\ \E num \in 1..Len(mapping) :
                       sel.comparisons[mapping[num] + 1].status = "CHANGED"
                 /\ selection' = Some([sel EXCEPT
                                         !.last = Command(view, 0),
                                         !.returned = Some(Raised("MarkupError", ""))])
                 /\ pc' = "sel_done"
    /\ UNCHANGED select_frame

\* Lines 306-312: Enter returns the selected comparisons; with none
\* selected it asks first.
ConfirmSelection ==
    /\ pc = "sel_menu"
    /\ LET sel == Value(selection)
       IN  \E anyway \in BOOLEAN :
              IF sel.selected_indices # << >> \/ anyway
              THEN /\ selection' = Some([sel EXCEPT
                         !.last = Command("enter", 0),
                         !.returned = Some(Returned(
                             [n \in 1..Len(sel.selected_indices) |->
                                 sel.comparisons[sel.selected_indices[n] + 1]]))])
                   /\ pc' = "sel_done"
              ELSE /\ selection' = Some([sel EXCEPT !.last = Command("enter", 0)])
                   /\ UNCHANGED pc
    /\ UNCHANGED select_frame

\* Lines 314-317: q returns no comparison once confirmed.
QuitSelection ==
    /\ pc = "sel_menu"
    /\ \E sure \in BOOLEAN :
          IF sure
          THEN /\ selection' = Some([Value(selection) EXCEPT
                                       !.last = Command("q", 0),
                                       !.returned = Some(Returned(<< >>))])
               /\ pc' = "sel_done"
          ELSE /\ selection' = Some([Value(selection) EXCEPT !.last = Command("q", 0)])
               /\ UNCHANGED pc
    /\ UNCHANGED select_frame

SelectNext ==
    \/ ToggleNumber
    \/ SelectAll
    \/ DeselectAll
    \/ SelectNew
    \/ SelectChanged
    \/ CycleFilter
    \/ ViewComparison
    \/ ConfirmSelection
    \/ QuitSelection

SpecSelect == SelectInit /\ [][SelectNext]_vars

\* The indices selected, as a set.
SelectedSet(sel) == {sel.selected_indices[n] : n \in 1..Len(sel.selected_indices)}

\* No index is selected twice, and every selected index is the index of a
\* comparison.
SelectionWellFormed(sel) ==
    /\ \A i, j \in 1..Len(sel.selected_indices) :
          i # j => sel.selected_indices[i] # sel.selected_indices[j]
    /\ \A n \in 1..Len(sel.selected_indices) :
          sel.selected_indices[n] \in 0..(Len(sel.comparisons) - 1)

\* Before the first command the selection is the NEW and the CHANGED
\* comparisons.
SelectionStartsWithNewAndChanged ==
    (~IsNone(selection) /\ Value(selection).last = Command("", 0)) =>
        SelectedSet(Value(selection))
           = {i \in 0..(Len(Value(selection).comparisons) - 1) :
                 Value(selection).comparisons[i + 1].status \in {"NEW", "CHANGED"}}

\* A toggle under whatever filter changes the membership of the comparison
\* displayed at the number given, and of no other.
ToggleChangesTheOneShown ==
    (/\ ~IsNone(selection) /\ ~IsNone(selection')
     /\ Value(selection').last.command = "toggle"
     /\ Value(selection').last.num \in
           1..Len(idx_mapping(Value(selection).comparisons,
                              Value(selection).filter_mode))) =>
        LET sel == Value(selection)
            shown == idx_mapping(sel.comparisons, sel.filter_mode)
            actual_idx == shown[Value(selection').last.num]
        IN  /\ sel.filter_mode # "ALL" =>
                  sel.comparisons[actual_idx + 1].status = sel.filter_mode
            /\ \A i \in 0..(Len(sel.comparisons) - 1) :
                  (i \in SelectedSet(Value(selection')) <=> i \in SelectedSet(sel))
                     <=> i # actual_idx

\* C39: in the import selection loop the initial selection is exactly the
\* comparisons with status NEW or CHANGED, after any sequence of commands
\* the selection holds no index twice and only indices of existing
\* comparisons, and a toggle by number under a filter changes the
\* membership of exactly the comparison shown at that number.
C39_SelectionStaysWellFormed ==
    /\ [](SelectionStartsWithNewAndChanged)
    /\ [](~IsNone(selection) => SelectionWellFormed(Value(selection)))
    /\ [][ToggleChangesTheOneShown]_vars

\* A comparison has been toggled off and on again under a filter, after
\* everything shown was selected.
C39_Witness ==
    /\ ~IsNone(selection)
    /\ Value(selection).last = Command("toggle", 1)
    /\ Value(selection).filter_mode = "IDENTICAL"
    /\ Len(Value(selection).selected_indices) = MaxComparisons
    /\ Value(selection).selected_indices[1] # 0
=============================================================================
